---- MODULE Spec2Model ----
(***************************************************************************)
(* Guidance state machines of the Visual_Slam repository.                  *)
(*                                                                         *)
(*   NavigationModule  integrated-app/js/app.js        (class at line 315) *)
(*   Navigator         indoor-nav-pwa/navigation.js    (class at line 77)  *)
(*   GeometryUtils     indoor-nav-pwa/navigation.js    (class at line 8)   *)
(*   InstructionEngine indoor-nav-pwa/navigation.js    (class at line 45)  *)
(* and dead reckoning:                                                     *)
(*   HeadingEstimator  indoor-nav-pwa/odometry.js      (class at line 52)  *)
(*   OdometryModule    integrated-app/js/odometry.js   (class at line 39)  *)
(*   VisualOdometry    integrated-app/js/odometry.js   (class at line 1)   *)
(*   StepDetector      indoor-nav-pwa/odometry.js      (class at line 8)   *)
(*   VisualOdometry    indoor-nav-pwa/odometry.js      (class at line 94)  *)
(*   PositionTracker   indoor-nav-pwa/odometry.js      (class at line 159) *)
(*   MiniMap           integrated-app/js/app.js        (class at line 218) *)
(*                                                                         *)
(* Representation of the JavaScript numbers:                               *)
(*   lengths   integers, in decimetres (1.5 m is 15)                       *)
(*   angles    integers, in tenths of a degree (10 degrees is 100)         *)
(*   headings given to NavigationModule are radians; a heading h stands    *)
(*             for h * pi/36 rad, so that h * (180/pi) is 5*h degrees      *)
(*   times     integers, in milliseconds                                   *)
(* A page loads one of the two applications; `app' says which one.         *)
(***************************************************************************)
EXTENDS Integers, Sequences, FiniteSets, TLC

VARIABLES
    app,            \* which application the page runs
    nmState,        \* NavigationModule.state
    nmTarget,       \* NavigationModule.target   (<<>> is null, <<t>> an object)
    navState,       \* Navigator.state
    navTarget,      \* Navigator.target          (<<>> is null, <<t>> an object)
    navUser,        \* Navigator.user
    lastSpokenTime, \* Navigator.engine.lastSpokenTime
    call,           \* the last call made on the machine: arguments, state
                    \* before it, returned value, engine.speak/vibrate calls
    geoCall,        \* the last geometry computation: arguments and result
    he,             \* the HeadingEstimator of PositionTracker
    om,             \* the OdometryModule of AppController
    odoCall,        \* the last call made on he or om: arguments, object
                    \* before it, number of heading updates made so far
    sd,             \* the StepDetector of PositionTracker
    pt,             \* PositionTracker: x and y
    vo,             \* the VisualOdometry of OdometryModule or PositionTracker
    minimap,        \* the MiniMap of AppController
    stepCall,       \* the last call made while walking, what it did, the
                    \* clock, and what has happened since the page loaded
    access,         \* AccessibilityModule or FeedbackManager
    voiceCall,      \* the last call that announced something, and the clock
    ac,             \* AppController
    chains,         \* the AppController.loop chains running or scheduled
    vision,         \* VisionModule
    loopCall,       \* the last call of start, stop or loop, and what it did
    sw,             \* the service worker: its cache and the network
    swCall          \* the last fetch and how it was answered

vars ==
    <<app, nmState, nmTarget, navState, navTarget, navUser, lastSpokenTime, call,
      geoCall, he, om, odoCall, sd, pt, vo, minimap, stepCall,
      access, voiceCall, ac, chains, vision, loopCall, sw, swCall>>

\* the variables of the guidance machines, and those of dead reckoning
navVars == <<nmState, nmTarget, navState, navTarget, navUser, lastSpokenTime, call>>
odoVars == <<he, om, odoCall>>
stepVars == <<sd, pt, vo, minimap, stepCall>>
voiceVars == <<access, voiceCall>>
loopVars == <<ac, chains, vision, loopCall>>
swVars == <<sw, swCall>>
appVars == <<voiceVars, loopVars, swVars>>

----------------------------------------------------------------------------
(* Representation scales *)

AngleScale == 10    \* tenths of a degree per degree
RadUnitDeg == 5     \* one heading unit of NavigationModule is pi/36 rad = 5 degrees

(* Bounds of the model *)

MaxTick == 2        \* Date.now() takes the values StartTime + k * TickMs, k in 0..MaxTick

TickMs == 1500
StartTime == 3000   \* Date.now() is far above minSpeechInterval when the page loads

Times == {StartTime + k * TickMs : k \in 0..MaxTick}

\* Positions (x, y) in decimetres.  Every vector from a position to a target
\* lies on an axis or a diagonal, so that its bearing is a whole number of
\* degrees.
Positions ==
    {<<0, 0>>, <<0, 50>>, <<10, 50>>, <<15, 50>>, <<30, 50>>, <<35, 50>>,
     <<40, 50>>}

\* setTarget arguments: (0, 5 m), the one AppController.setTarget passes, and (5 m, 5 m)
Targets == {<<0, 50>>, <<50, 50>>}

\* Headings handed to Navigator.update, in tenths of a degree
HeadingsDeg ==
    {0, 50, 100, 125, 200, 250, 450, 500, 900, 3100, 3475, 3500}

\* Headings handed to NavigationModule.update, in units of pi/36 rad
HeadingsRad == {0, 1, 2, 3, 4, 5, 9, 10, 18, 62, 70}

----------------------------------------------------------------------------
(* Program constants *)

\* NavigationModule.thresholds
arrival == 15 \* 1.5 m
rotation == 20
move == 10

\* Navigator thresholds
arrivalThreshold == 15 \* 1.5 m
rotationThreshold == 20
moveThreshold == 10
hapticThreshold == 45

\* InstructionEngine
minSpeechInterval == 3000

----------------------------------------------------------------------------
(* Arithmetic helpers *)

Abs(n) == IF n < 0 THEN -n ELSE n

\* Math.round on a value given in tenths: floor(v + 0.5), as an integer
Round(v) == (v + (AngleScale \div 2)) \div AngleScale

\* Math.atan2(dx, dy) * (180 / Math.PI), in tenths of a degree, for the
\* vectors that lie on an axis or a diagonal (the only ones with a rational
\* number of degrees); atan2(0, 0) is 0.
Atan2Deg(dx, dy) ==
    CASE dx = 0 /\ dy >= 0 -> 0
      [] dx = 0 /\ dy < 0 -> 180 * AngleScale
      [] dx > 0 /\ dy = 0 -> 90 * AngleScale
      [] dx < 0 /\ dy = 0 -> -90 * AngleScale
      [] dx > 0 /\ dy = dx -> 45 * AngleScale
      [] dx > 0 /\ dy = -dx -> 135 * AngleScale
      [] dx < 0 /\ dy = -dx -> -45 * AngleScale
      [] dx < 0 /\ dy = dx -> -135 * AngleScale

\* while (diff > 180) diff -= 360;
RECURSIVE WhileAbove(_)
WhileAbove(diff) ==
    IF diff > 180 * AngleScale THEN WhileAbove(diff - 360 * AngleScale) ELSE diff

\* while (diff < -180) diff += 360;
RECURSIVE WhileBelow(_)
WhileBelow(diff) ==
    IF diff < -180 * AngleScale THEN WhileBelow(diff + 360 * AngleScale) ELSE diff

----------------------------------------------------------------------------
(* Doubles next to zero *)

(* An integer of the model stands for the doubles nearest to it.  That     *)
(* hides the sign of a double next to zero, which `theta < 0' tests, and   *)
(* dead reckoning produces such doubles: a step taken at heading pi adds   *)
(* 0.7 * Math.sin(Math.PI) = 8.6e-17 to x.  A double is therefore written  *)
(* <<v, s>>: v is the grid value nearest to it and, for v = 0, the double  *)
(* is s * t for one fixed t with 0 < t <= 2^-53 (metres, or degrees); for  *)
(* v # 0 the residue s is 0.  Round-to-nearest makes that exact for the    *)
(* grid values used with residues here: 5 - t is 5, and theta + 360 is     *)
(* 360 for -2^-45 < theta < 0, the doubles below 360 being 2^-44 apart.    *)

Dbl(v) == <<v, 0>>          \* the double on the grid value v
Residue(s) == <<0, s>>      \* the double s * t
Grid(d) == d[1]

\* d < 0
LtZero(d) == d[1] < 0 \/ (d[1] = 0 /\ d[2] < 0)

\* a - b and a + b, rounded to nearest
SubDouble(a, b) == IF a[1] = b[1] THEN <<0, a[2] - b[2]>> ELSE <<a[1] - b[1], 0>>
AddDouble(a, b) == IF a[1] + b[1] = 0 THEN <<0, a[2] + b[2]>> ELSE <<a[1] + b[1], 0>>

\* Math.atan2(dx, dy) * (180 / Math.PI) for doubles: atan2(s*t, dy) is
\* s*t/dy for dy > 0 (a residue again, dy being 5 m or more), +-pi/2 for
\* dy = 0 and +-pi for dy < 0.  A residue in dy alone is not modelled.
Atan2Double(dx, dy) ==
    CASE dx[2] = 0 /\ dy[2] = 0 -> Dbl(Atan2Deg(dx[1], dy[1]))
      [] dx[2] # 0 /\ dy[2] = 0 /\ dy[1] > 0 -> Residue(dx[2])
      [] dx[2] > 0 /\ dy[2] = 0 /\ dy[1] = 0 -> Dbl(90 * AngleScale)
      [] dx[2] < 0 /\ dy[2] = 0 /\ dy[1] = 0 -> Dbl(-90 * AngleScale)
      [] dx[2] > 0 /\ dy[2] = 0 /\ dy[1] < 0 -> Dbl(180 * AngleScale)
      [] dx[2] < 0 /\ dy[2] = 0 /\ dy[1] < 0 -> Dbl(-180 * AngleScale)

----------------------------------------------------------------------------
(* GeometryUtils *)

\* getBearing on doubles
getBearingDouble(x1, y1, x2, y2) ==
    LET dx == SubDouble(x2, x1)
        dy == SubDouble(y2, y1)
        theta == Atan2Double(dx, dy)
    IN  IF LtZero(theta) THEN AddDouble(theta, Dbl(360 * AngleScale)) ELSE theta

\* getBearing on grid values
getBearing(x1, y1, x2, y2) ==
    Grid(getBearingDouble(Dbl(x1), Dbl(y1), Dbl(x2), Dbl(y2)))

\* Mutant: the difference taken from heading 0 instead of currentHeading
getAngleDiffFromNorth(currentHeading, targetBearing) ==
    <<WhileBelow(WhileAbove(targetBearing[1])), targetBearing[2]>>

\* getAngleDiff on doubles; the loops add and subtract 360 on the grid, and
\* a residue is left only in a difference next to zero, which they skip
getAngleDiffDouble(currentHeading, targetBearing) ==
    LET diff == SubDouble(targetBearing, currentHeading)
    IN  <<WhileBelow(WhileAbove(diff[1])), diff[2]>>

\* getAngleDiff on grid values
getAngleDiff(currentHeading, targetBearing) ==
    Grid(getAngleDiffDouble(Dbl(currentHeading), Dbl(targetBearing)))

\* getDistance returns Math.sqrt(dx*dx + dy*dy); the model keeps the square
\* and compares it with the square of the threshold.
getDistance2(x1, y1, x2, y2) ==
    LET dx == x2 - x1
        dy == y2 - y1
    IN  dx * dx + dy * dy

----------------------------------------------------------------------------
(* Values *)

Null == "null"              \* JavaScript null
Undefined == "undefined"    \* a key the returned object does not have

Object(v) == <<v>>          \* a reference that is not null
IsNull(ref) == ref = <<>>
Deref(ref) == ref[1]

----------------------------------------------------------------------------
(* NavigationModule, integrated-app/js/app.js *)

\* userPos.heading * (180 / Math.PI)
RadToDeg(heading) == heading * RadUnitDeg * AngleScale

\* Mutant: the arrival branch without the `this.state !== 'ARRIVED'` edge test
nmArrivalBranchEveryTick(state, dist2, diff) ==
    [state |-> "ARRIVED",
     ret |-> [instruction |-> "You have arrived.", event |-> "arrived",
              dist2 |-> dist2, diff |-> diff, state |-> Undefined]]

\* if (dist < this.thresholds.arrival) { ... return { instruction, event, dist, diff }; }
nmArrivalBranch(state, dist2, diff) ==
    IF state # "ARRIVED"
    THEN [state |-> "ARRIVED",
          ret |-> [instruction |-> "You have arrived.", event |-> "arrived",
                   dist2 |-> dist2, diff |-> diff, state |-> Undefined]]
    ELSE [state |-> state,
          ret |-> [instruction |-> Null, event |-> Null,
                   dist2 |-> dist2, diff |-> diff, state |-> Undefined]]

\* Mutant: the ROTATING branch without `this.state = 'MOVING'`
nmRotatingBranchKeepsState(diff) ==
    IF Abs(diff) < move * AngleScale
    THEN [state |-> "ROTATING", instruction |-> "Walk forward.", event |-> "straight"]
    ELSE [state |-> "ROTATING", instruction |-> Null, event |-> Null]

\* Mutant: the ROTATING branch entering MOVING under the rotation deadband
nmRotatingBranchOneDeadband(diff) ==
    IF Abs(diff) < rotation * AngleScale
    THEN [state |-> "MOVING", instruction |-> "Walk forward.", event |-> "straight"]
    ELSE [state |-> "ROTATING", instruction |-> Null, event |-> Null]

\* if (this.state === 'ROTATING') { ... }
nmRotatingBranch(diff) ==
    IF Abs(diff) < move * AngleScale
    THEN [state |-> "MOVING", instruction |-> "Walk forward.", event |-> "straight"]
    ELSE [state |-> "ROTATING", instruction |-> Null, event |-> Null]

\* Mutant: the MOVING branch with >= for >
nmMovingBranchInclusive(diff) ==
    IF Abs(diff) >= rotation * AngleScale
    THEN [state |-> "ROTATING", instruction |-> "Stop. Turn to correct heading.",
          event |-> "stop"]
    ELSE [state |-> "MOVING", instruction |-> Null, event |-> Null]

\* Mutant: the MOVING branch with an event code of its own
nmMovingBranchHalt(diff) ==
    IF Abs(diff) > rotation * AngleScale
    THEN [state |-> "ROTATING", instruction |-> "Stop. Turn to correct heading.",
          event |-> "halt"]
    ELSE [state |-> "MOVING", instruction |-> Null, event |-> Null]

\* else if (this.state === 'MOVING') { ... }
nmMovingBranch(diff) ==
    IF Abs(diff) > rotation * AngleScale
    THEN [state |-> "ROTATING", instruction |-> "Stop. Turn to correct heading.",
          event |-> "stop"]
    ELSE [state |-> "MOVING", instruction |-> Null, event |-> Null]

\* The part of update(userPos) after the null check: the new state and the
\* returned object.
\* let bearing = Math.atan2(dx, dy) * (180 / Math.PI); if (bearing < 0) bearing += 360;
nmBearing(dx, dy) ==
    LET bearing == Atan2Double(dx, dy)
    IN  IF LtZero(bearing) THEN AddDouble(bearing, Dbl(360 * AngleScale)) ELSE bearing

\* let diff = bearing - userHdgDeg; and the two while loops
nmAngleDiff(bearing, userHdgDeg) ==
    LET diff == SubDouble(bearing, userHdgDeg)
    IN  <<WhileBelow(WhileAbove(diff[1])), diff[2]>>

nmGuide(state, target, userPos) ==
    LET dx == target.x - userPos.x
        dy == target.y - userPos.y
        dist2 == dx * dx + dy * dy
        bearing == nmBearing(Dbl(dx), Dbl(dy))
        userHdgDeg == RadToDeg(userPos.heading)
        diff == Grid(nmAngleDiff(bearing, Dbl(userHdgDeg)))
        br == CASE state = "ROTATING" -> nmRotatingBranch(diff)
                [] state = "MOVING" -> nmMovingBranch(diff)
                [] OTHER -> [state |-> state, instruction |-> Null, event |-> Null]
    IN  IF dist2 < arrival * arrival
        THEN nmArrivalBranch(state, dist2, diff)
        ELSE [state |-> br.state,
              ret |-> [instruction |-> br.instruction, event |-> br.event,
                       dist2 |-> dist2, diff |-> diff, state |-> br.state]]

\* Mutant: update returning an empty guidance object when no target is set
nmUpdateEmptyObject(state, target, userPos) ==
    IF IsNull(target)
    THEN [state |-> state,
          ret |-> Object([instruction |-> Null, event |-> Null, dist2 |-> 0,
                          diff |-> 0, state |-> state])]
    ELSE LET g == nmGuide(state, Deref(target), userPos)
         IN  [state |-> g.state, ret |-> Object(g.ret)]

\* update(userPos): <<>> is the returned null
nmUpdate(state, target, userPos) ==
    IF IsNull(target)
    THEN [state |-> state, ret |-> <<>>]
    ELSE LET g == nmGuide(state, Deref(target), userPos)
         IN  [state |-> g.state, ret |-> Object(g.ret)]

\* Mutant: setTarget storing the target without `this.state = 'ROTATING'`,
\* as seen from the constructed state
nmSetTargetIdle(x, y) ==
    [target |-> Object([x |-> x, y |-> y]), state |-> "IDLE",
     ret |-> "New destination set. Turn to face target."]

\* setTarget(x, y)
nmSetTarget(x, y) ==
    [target |-> Object([x |-> x, y |-> y]), state |-> "ROTATING",
     ret |-> "New destination set. Turn to face target."]

----------------------------------------------------------------------------
(* InstructionEngine, indoor-nav-pwa/navigation.js *)

\* speak(text, force = false) at Date.now() = now: whether the text is
\* spoken, and lastSpokenTime after the call
engineSpeak(last, force, now) ==
    IF ~force /\ (now - last < minSpeechInterval)
    THEN [spoken |-> FALSE, lastSpokenTime |-> last]
    ELSE [spoken |-> TRUE, lastSpokenTime |-> now]

----------------------------------------------------------------------------
(* Navigator, indoor-nav-pwa/navigation.js *)

\* What a call asks of the engine: the texts given to engine.speak and the
\* patterns given to engine.vibrate, in call order.
Quiet(state) == [state |-> state, speak |-> <<>>, vibrate |-> <<>>]

\* giveRotationInstruction(angleDiff)
giveRotationInstruction(angleDiff) ==
    LET text == IF angleDiff > 0
                THEN "Turn right " \o ToString(Round(angleDiff)) \o " degrees."
                ELSE "Turn left " \o ToString(Round(Abs(angleDiff))) \o " degrees."
        pattern == IF angleDiff > 0 THEN <<300>> ELSE <<100, 50, 100>>
    IN  [speak |-> <<text>>,
         vibrate |-> IF Abs(angleDiff) > hapticThreshold * AngleScale
                     THEN <<pattern>> ELSE <<>>]

\* case 'ARRIVED':
navArrivedCase(dist2) ==
    IF dist2 > (arrivalThreshold * 2) * (arrivalThreshold * 2)
    THEN Quiet("ROTATING")
    ELSE Quiet("ARRIVED")

\* case 'ROTATING':
navRotatingCase(angleDiff) ==
    IF Abs(angleDiff) < moveThreshold * AngleScale
    THEN [state |-> "MOVING", speak |-> <<"Walk forward.">>,
          vibrate |-> << <<50, 50, 50>> >>]
    ELSE LET r == giveRotationInstruction(angleDiff)
         IN  [state |-> "ROTATING", speak |-> r.speak, vibrate |-> r.vibrate]

\* Mutant: case 'MOVING' repeating "Walk forward." while the user keeps going
navMovingCaseChatty(dist2, angleDiff) ==
    IF dist2 < arrivalThreshold * arrivalThreshold
    THEN [state |-> "ARRIVED", speak |-> <<"You have arrived.">>,
          vibrate |-> << <<500, 100, 500>> >>]
    ELSE IF Abs(angleDiff) > rotationThreshold * AngleScale
         THEN [state |-> "ROTATING", speak |-> <<"Stop. Turn to correct heading.">>,
               vibrate |-> << <<200>> >>]
         ELSE [state |-> "MOVING", speak |-> <<"Walk forward.">>, vibrate |-> <<>>]

\* case 'MOVING':
navMovingCase(dist2, angleDiff) ==
    IF dist2 < arrivalThreshold * arrivalThreshold
    THEN [state |-> "ARRIVED", speak |-> <<"You have arrived.">>,
          vibrate |-> << <<500, 100, 500>> >>]
    ELSE IF Abs(angleDiff) > rotationThreshold * AngleScale
         THEN [state |-> "ROTATING", speak |-> <<"Stop. Turn to correct heading.">>,
               vibrate |-> << <<200>> >>]
         ELSE Quiet("MOVING")

\* update(userX, userY, userHeading): the new state and the engine calls
navUpdate(state, target, userX, userY, userHeading) ==
    IF IsNull(target)
    THEN Quiet(state)
    ELSE LET t == Deref(target)
             dist2 == getDistance2(userX, userY, t.x, t.y)
             bearing == getBearing(userX, userY, t.x, t.y)
             angleDiff == getAngleDiff(userHeading, bearing)
         IN  CASE state = "IDLE" -> Quiet(state)
               [] state = "ARRIVED" -> navArrivedCase(dist2)
               [] state = "ROTATING" -> navRotatingCase(angleDiff)
               [] state = "MOVING" -> navMovingCase(dist2, angleDiff)
               [] OTHER -> Quiet(state)

\* Mutant: setTarget storing the coordinates swapped
navSetTargetSwapped(x, y) ==
    [target |-> Object([x |-> y, y |-> x]), state |-> "ROTATING",
     speak |-> <<"New destination set.">>]

\* setTarget(x, y)
navSetTarget(x, y) ==
    [target |-> Object([x |-> x, y |-> y]), state |-> "ROTATING",
     speak |-> <<"New destination set.">>]

----------------------------------------------------------------------------
(* Dead reckoning: HeadingEstimator, indoor-nav-pwa/odometry.js, and       *)
(* OdometryModule, integrated-app/js/odometry.js.                          *)
(*   stored headings  integers, in units of pi/1800 rad (a tenth of a      *)
(*                    degree), so that 2 * Math.PI is 3600                 *)
(*   yaw rates        integers, in degrees per second                      *)
(*   accelerations    integers, in hundredths of m/s^2                     *)
(*   positions        integers, in millimetres                             *)

TwoPi == 360 * AngleScale

\* a % n of JavaScript, for n > 0: the result has the sign of a
JsRem(a, n) == IF a >= 0 THEN a % n ELSE -((-a) % n)

\* v || 0, for a number or null
OrZero(ref) == IF IsNull(ref) THEN 0 ELSE Deref(ref)

\* (alpha * (Math.PI / 180)) * (dtMs / 1000), in heading units
Integrate(rate, dtMs) == (rate * AngleScale * dtMs) \div 1000

newHeadingEstimator ==
    [heading |-> 0, lastTime |-> 0, isCalibrated |-> FALSE, bias |-> 0]

\* HeadingEstimator.update(rotationRate, timestamp)
heUpdate(h, rotationRate, timestamp) ==
    IF h.lastTime = 0
    THEN [h EXCEPT !.lastTime = timestamp]
    ELSE LET dt == timestamp - h.lastTime
             rateRad == OrZero(rotationRate.alpha)
         IN  [h EXCEPT !.lastTime = timestamp,
                       !.heading = JsRem(h.heading + Integrate(rateRad, dt), TwoPi)]

\* HeadingEstimator.setAbsoluteHeading(degrees)
heSetAbsoluteHeading(h, degrees) ==
    [h EXCEPT !.heading = degrees * AngleScale, !.isCalibrated = TRUE]

\* OdometryModule constants
stepThreshold == 12     \* 1.2, in tenths
alpha == 8              \* 0.8, in tenths
gravity == 981          \* 9.81 m/s^2
stepLen == 700          \* 0.7 m
minStepGap == 400       \* now - lastStepTime > 400

newOdometryModule ==
    [x |-> 0, y |-> 0, heading |-> 0, stepCount |-> 0,
     lastAccel |-> [x |-> 0, y |-> 0, z |-> 0],
     lastStepTime |-> 0, lastGyroTime |-> 0, isMoving |-> FALSE]

\* this.alpha * last + (1 - this.alpha) * a
LowPass(last, a) == (alpha * last + (10 - alpha) * a) \div 10

\* Mutant: no threshold, any acceleration counts
MagAboveZero(x, y, z) == x * x + y * y + z * z > 0

\* Math.sqrt(x*x + y*y + z*z) / 9.81 > this.stepThreshold, squared
MagAboveThreshold(x, y, z) ==
    100 * (x * x + y * y + z * z) > (gravity * stepThreshold) * (gravity * stepThreshold)

\* 1000 * Math.sin and 1000 * Math.cos of a heading that is a multiple of
\* pi/2, the headings the yaw rates and intervals below produce; the
\* heading of HeadingEstimator may be negative, or 2 pi and more
SinMilli(heading) ==
    CASE heading % TwoPi = 0 -> 0
      [] heading % TwoPi = 90 * AngleScale -> 1000
      [] heading % TwoPi = 180 * AngleScale -> 0
      [] heading % TwoPi = 270 * AngleScale -> -1000

\* Mutant: the cosine taken for the sine
CosMilliAsSin(heading) == SinMilli(heading)

CosMilli(heading) == SinMilli(heading + 90 * AngleScale)

\* Mutant: no refractory interval
omRefractoryNone(o, dateNow) == TRUE

\* now - this.lastStepTime > 400
omRefractoryPassed(o, dateNow) == dateNow - o.lastStepTime > minStepGap

\* Mutant: the step counted whatever visual odometry says
omFusionGateOpen(o) == TRUE

\* if (this.isMoving)
omFusionGate(o) == o.isMoving

\* part 1 of handleMotion: step detection; dateNow is what Date.now() returns
omStepDetection(o, acc, dateNow) ==
    IF IsNull(acc)
    THEN o
    ELSE LET x == LowPass(o.lastAccel.x, Deref(acc).x)
             y == LowPass(o.lastAccel.y, Deref(acc).y)
             z == LowPass(o.lastAccel.z, Deref(acc).z)
             f == [o EXCEPT !.lastAccel = [x |-> x, y |-> y, z |-> z]]
         IN  IF MagAboveThreshold(x, y, z) /\ omRefractoryPassed(o, dateNow)
                /\ omFusionGate(o)
             THEN [f EXCEPT !.stepCount = o.stepCount + 1,
                            !.lastStepTime = dateNow,
                            !.x = o.x + (stepLen * SinMilli(o.heading)) \div 1000,
                            !.y = o.y + (stepLen * CosMilli(o.heading)) \div 1000]
             ELSE f

\* the time of a gyro sample: e.timeStamp || Date.now()
omNow(timeStamp, dateNow) == IF timeStamp = 0 THEN dateNow ELSE timeStamp

\* Mutant: a gyro sample that also restarts the refractory interval
omHeadingRestarts(o, rot, now) ==
    IF IsNull(rot) THEN o ELSE [o EXCEPT !.lastGyroTime = now, !.lastStepTime = now]

\* part 2 of handleMotion: gyro integration
omHeading(o, rot, now) ==
    IF IsNull(rot)
    THEN o
    ELSE IF o.lastGyroTime # 0
         THEN LET dt == now - o.lastGyroTime
                  rate == OrZero(Deref(rot).alpha)
                  sum == JsRem(o.heading + Integrate(rate, dt), TwoPi)
              IN  [o EXCEPT !.lastGyroTime = now,
                            !.heading = IF sum < 0 THEN sum + TwoPi ELSE sum]
         ELSE [o EXCEPT !.lastGyroTime = now]

\* OdometryModule.handleMotion(e); dateNow1 and dateNow2 are what the two
\* Date.now() calls return
omHandleMotion(o, e, dateNow1, dateNow2) ==
    omHeading(omStepDetection(o, e.accelerationIncludingGravity, dateNow1),
              e.rotationRate, omNow(e.timeStamp, dateNow2))

\* Mutant: getPosition handing out the pose and starting a new track
omGetPositionReset(o) ==
    [om |-> [o EXCEPT !.x = 0, !.y = 0],
     ret |-> [x |-> o.x, y |-> o.y, heading |-> o.heading]]

\* Mutant: a read that takes y before a step and x after it
omGetPositionTorn(o) ==
    [om |-> o, ret |-> [x |-> o.x, y |-> 0, heading |-> o.heading]]

\* OdometryModule.getPosition(): the module after the call and the object
\* returned
omGetPosition(o) ==
    [om |-> o, ret |-> [x |-> o.x, y |-> o.y, heading |-> o.heading]]

----------------------------------------------------------------------------
(* VisualOdometry of integrated-app/js/odometry.js.  A frame is the        *)
(* sequence of the grey levels (r + g + b) / 3 of its pixels; a video is   *)
(* its readyState and the frame drawImage would draw.                      *)

flowThreshold == 5      \* this.isMoving = flow > 5

newVisualOdometry == [prevFrame |-> <<>>]

\* the loop over the pixels: the sum of Math.abs(g1 - g2)
RECURSIVE FrameDiff(_, _)
FrameDiff(data1, data2) ==
    IF data1 = <<>>
    THEN 0
    ELSE Abs(Head(data1) - Head(data2)) + FrameDiff(Tail(data1), Tail(data2))

\* VisualOdometry.process(video): the object after the call and the
\* movement returned
voProcess(v, video) ==
    IF video.readyState < 2
    THEN [vo |-> v, ret |-> 0]
    ELSE LET currentFrame == video.frame
             movement == IF IsNull(v.prevFrame)
                         THEN 0
                         ELSE FrameDiff(Deref(v.prevFrame), currentFrame)
                                  \div Len(currentFrame)
         IN  [vo |-> [v EXCEPT !.prevFrame = Object(currentFrame)], ret |-> movement]

\* OdometryModule.updateVisuals(video)
omUpdateVisuals(o, v, video) ==
    LET p == voProcess(v, video)
    IN  [om |-> [o EXCEPT !.isMoving = p.ret > flowThreshold], vo |-> p.vo, flow |-> p.ret]

----------------------------------------------------------------------------
(* StepDetector, VisualOdometry and PositionTracker of                     *)
(* indoor-nav-pwa/odometry.js                                              *)

threshold == 12             \* 1.2 g, in tenths
minStepInterval == 300
stepLength == 700           \* 0.7 m
noiseThreshold == 20        \* if (diff > 20)

newStepDetector ==
    [lastStepTime |-> 0, stepCount |-> 0, isPeak |-> FALSE,
     lastAccel |-> [x |-> 0, y |-> 0, z |-> 0]]

\* magnitude > this.threshold and magnitude < this.threshold, squared;
\* this.alpha (0.8) and this.gravity (9.81) of StepDetector have the values
\* of alpha and gravity above
sdAbove(x, y, z) ==
    100 * (x * x + y * y + z * z) > (gravity * threshold) * (gravity * threshold)
sdBelow(x, y, z) ==
    100 * (x * x + y * y + z * z) < (gravity * threshold) * (gravity * threshold)

\* Mutant: no refractory interval
sdRefractoryNone(d, now) == TRUE

\* now - this.lastStepTime > this.minStepInterval
sdRefractoryPassed(d, now) == now - d.lastStepTime > minStepInterval

\* StepDetector.update(accel); now is what performance.now() returns;
\* onStep says whether this.onStep was called
sdUpdate(d, accel, now) ==
    LET x == LowPass(d.lastAccel.x, accel.x)
        y == LowPass(d.lastAccel.y, accel.y)
        z == LowPass(d.lastAccel.z, accel.z)
        f == [d EXCEPT !.lastAccel = [x |-> x, y |-> y, z |-> z]]
    IN  IF sdAbove(x, y, z) /\ sdRefractoryPassed(d, now)
        THEN IF ~d.isPeak
             THEN [sd |-> [f EXCEPT !.isPeak = TRUE,
                                    !.stepCount = d.stepCount + 1,
                                    !.lastStepTime = now],
                   onStep |-> TRUE]
             ELSE [sd |-> f, onStep |-> FALSE]
        ELSE IF sdBelow(x, y, z)
             THEN [sd |-> [f EXCEPT !.isPeak = FALSE], onStep |-> FALSE]
             ELSE [sd |-> f, onStep |-> FALSE]

newPositionTracker == [x |-> 0, y |-> 0]

\* PositionTracker.onStepDetected(), theta being headingEstimator.heading
ptOnStepDetected(p, theta) ==
    [p EXCEPT !.x = p.x + (stepLength * SinMilli(theta)) \div 1000,
              !.y = p.y + (stepLength * CosMilli(theta)) \div 1000]

\* the devicemotion listener of PositionTracker.init; now1 and now2 are
\* what the two performance.now() calls return
ptDeviceMotion(d, p, h, e, now1, now2) ==
    LET s == IF IsNull(e.accelerationIncludingGravity)
             THEN [sd |-> d, onStep |-> FALSE]
             ELSE sdUpdate(d, Deref(e.accelerationIncludingGravity), now1)
    IN  [sd |-> s.sd,
         pt |-> IF s.onStep THEN ptOnStepDetected(p, h.heading) ELSE p,
         he |-> IF IsNull(e.rotationRate)
                THEN h
                ELSE heUpdate(h, Deref(e.rotationRate), omNow(e.timeStamp, now2)),
         onStep |-> s.onStep]

\* the values processFrame returns: undefined, the initial { x: 0, y: 0 },
\* or { magnitude: totalDiff }; a number is written the same way
JsUndefined == [type |-> "undefined", value |-> 0]
JsNumber(n) == [type |-> "number", value |-> n]
FlowXY == [type |-> "{x, y}", value |-> 0]
FlowMagnitude(n) == [type |-> "{magnitude}", value |-> n]

newVisualOdometryPwa == [prevFrame |-> <<>>, flow |-> FlowXY]

\* calculateOpticalFlow: the sum of the differences above the noise threshold
RECURSIVE totalDiff(_, _)
totalDiff(data1, data2) ==
    IF data1 = <<>>
    THEN 0
    ELSE (IF Abs(Head(data1) - Head(data2)) > noiseThreshold
          THEN Abs(Head(data1) - Head(data2))
          ELSE 0) + totalDiff(Tail(data1), Tail(data2))

\* VisualOdometry.processFrame(): the object after the call and the value
\* returned
voProcessFrame(v, video) ==
    IF video.readyState < 2
    THEN [vo |-> v, ret |-> JsUndefined]
    ELSE LET currentFrame == video.frame
             flow == IF IsNull(v.prevFrame)
                     THEN v.flow
                     ELSE FlowMagnitude(totalDiff(Deref(v.prevFrame), currentFrame))
         IN  [vo |-> [prevFrame |-> Object(currentFrame), flow |-> flow], ret |-> flow]

----------------------------------------------------------------------------
(* MiniMap, integrated-app/js/app.js *)

minPathGap == 100       \* Math.hypot(...) > 0.1, in millimetres

newMiniMap == [path |-> <<>>, target |-> <<>>]

\* MiniMap.setTarget(x, y)
miniMapSetTarget(m, x, y) == [m EXCEPT !.target = Object([x |-> x, y |-> y])]

\* MiniMap.update(userPos); drawing is left out
miniMapUpdate(m, userPos) ==
    LET n == Len(m.path)
        dx == userPos.x - m.path[n].x
        dy == userPos.y - m.path[n].y
    IN  IF n = 0 \/ dx * dx + dy * dy > minPathGap * minPathGap
        THEN [m EXCEPT !.path = Append(m.path, [x |-> userPos.x, y |-> userPos.y])]
        ELSE m

----------------------------------------------------------------------------
(* AccessibilityModule, integrated-app/js/accessibility.js, and            *)
(* FeedbackManager, indoor-nav-pwa/accessibility.js                        *)

\* both constructors; synth is window.speechSynthesis, which the browser has
newAccessibilityModule == [synth |-> TRUE, lastSpoken |-> 0]
newFeedbackManager == [synth |-> TRUE, lastSpokenTime |-> 0]

speechThrottle == 3000          \* now - this.lastSpoken < 3000
feedbackSpeechInterval == 2000  \* this.minSpeechInterval of FeedbackManager

\* the text is null, undefined or empty
Falsy(text) == text \in {Null, Undefined, ""}

\* Mutant: announce throttling whatever the priority
amAnnounceThrottlesAll(a, text, priority, now) ==
    IF Falsy(text) \/ ~a.synth \/ now - a.lastSpoken < speechThrottle
    THEN [am |-> a, spoken |-> FALSE, cancelled |-> FALSE]
    ELSE [am |-> [a EXCEPT !.lastSpoken = now], spoken |-> TRUE,
          cancelled |-> priority = 2]

\* AccessibilityModule.announce(text, priority) at Date.now() = now: the
\* module after the call, whether synth.speak was called and whether
\* synth.cancel was
amAnnounce(a, text, priority, now) ==
    IF Falsy(text) \/ ~a.synth
    THEN [am |-> a, spoken |-> FALSE, cancelled |-> FALSE]
    ELSE IF priority < 2 /\ now - a.lastSpoken < speechThrottle
    THEN [am |-> a, spoken |-> FALSE, cancelled |-> FALSE]
    ELSE [am |-> [a EXCEPT !.lastSpoken = now], spoken |-> TRUE,
          cancelled |-> priority = 2]

\* const patterns of AccessibilityModule.vibrate
amPatterns ==
    [left |-> <<100, 50, 100>>, right |-> <<300>>, stop |-> <<50, 50, 50, 50>>,
     arrived |-> <<500, 100, 500>>, straight |-> <<50>>]

\* AccessibilityModule.vibrate(type): the pattern given to navigator.vibrate
amVibrate(type) == IF type \in DOMAIN amPatterns THEN amPatterns[type] ELSE <<50>>

\* this.patterns of FeedbackManager
fmPatterns ==
    [left |-> <<100, 50, 100>>, right |-> <<300>>, straight |-> <<50, 50, 50>>,
     stop |-> <<50, 50, 50, 50, 50, 50>>, arrived |-> <<500, 100, 500>>,
     info |-> <<50>>]

\* FeedbackManager.announce(text, priority); speaking is synth.speaking,
\* now1 the Date.now() of announce and now2 the one of speak
fmAnnounce(f, text, priority, speaking, now1, now2) ==
    IF ~f.synth
    THEN [fm |-> f, spoken |-> FALSE, cancelled |-> FALSE]
    ELSE IF priority = 2
    THEN [fm |-> [f EXCEPT !.lastSpokenTime = now2], spoken |-> TRUE, cancelled |-> TRUE]
    ELSE IF speaking /\ priority = 0
    THEN [fm |-> f, spoken |-> FALSE, cancelled |-> FALSE]
    ELSE IF now1 - f.lastSpokenTime < feedbackSpeechInterval
    THEN [fm |-> f, spoken |-> FALSE, cancelled |-> FALSE]
    ELSE [fm |-> [f EXCEPT !.lastSpokenTime = now2], spoken |-> TRUE, cancelled |-> FALSE]

----------------------------------------------------------------------------
(* AppController, integrated-app/js/app.js: guidance *)

\* part D of loop() after `const navUpdate = this.nav.update(pos)', u
\* being what update did, at Date.now() = now: the state of the
\* NavigationModule and the AccessibilityModule after it, the text and
\* priority given to announce, and the pattern given to navigator.vibrate
acFeedback(u, a, now) ==
    LET quiet == [state |-> u.state, am |-> a, text |-> Null, priority |-> 0,
                  spoken |-> FALSE, cancelled |-> FALSE, event |-> Null,
                  pattern |-> <<>>]
    IN  IF IsNull(u.ret)
        THEN quiet
        ELSE LET guidance == Deref(u.ret)
                 priority == IF guidance.event \in {"stop", "arrived"} THEN 2 ELSE 1
                 said == amAnnounce(a, guidance.instruction, priority, now)
             IN  [quiet EXCEPT
                    !.am = IF guidance.instruction # Null THEN said.am ELSE a,
                    !.text = guidance.instruction,
                    !.priority = IF guidance.instruction # Null THEN priority ELSE 0,
                    !.spoken = guidance.instruction # Null /\ said.spoken,
                    !.cancelled = guidance.instruction # Null /\ said.cancelled,
                    !.event = guidance.event,
                    !.pattern = IF guidance.event # Null
                                THEN amVibrate(guidance.event) ELSE <<>>]

\* part D of loop(): this.nav.update(pos) and the feedback on its result
acNavigate(state, target, a, pos, now) ==
    acFeedback(nmUpdate(state, target, pos), a, now)

----------------------------------------------------------------------------
(* VisionModule, integrated-app/js/vision.js *)

interval == 200     \* this.interval, 5 FPS

newVisionModule == [isLoaded |-> FALSE, lastRun |-> 0]

\* load(): cocoSsd.load() resolves (loaded) or rejects
vmLoad(v, loaded) == IF loaded THEN [v EXCEPT !.isLoaded = TRUE] ELSE v

\* Mutant: detect without the throttle
vmDetectEveryCall(v, video, now) ==
    IF ~v.isLoaded \/ video.readyState < 2
    THEN [vm |-> v, ret |-> "[]", inference |-> FALSE]
    ELSE [vm |-> [v EXCEPT !.lastRun = now], ret |-> "predictions", inference |-> TRUE]

\* detect(video) at Date.now() = now, up to its await: the module, what
\* the call returns ("predictions" once the model answers), and whether
\* this.model.detect was called
vmDetect(v, video, now) ==
    IF ~v.isLoaded \/ video.readyState < 2
    THEN [vm |-> v, ret |-> "[]", inference |-> FALSE]
    ELSE IF now - v.lastRun < interval
    THEN [vm |-> v, ret |-> Null, inference |-> FALSE]
    ELSE [vm |-> [v EXCEPT !.lastRun = now], ret |-> "predictions", inference |-> TRUE]

----------------------------------------------------------------------------
(* AppController, integrated-app/js/app.js: start, stop and loop *)

\* starting counts the start() calls suspended in their awaits; listening
\* says that OdometryModule.start() has added a devicemotion listener (every
\* start adds one more and none is ever removed; two listeners handle an
\* event as one listener handles two events of the same data)
newAppController ==
    [isRunning |-> FALSE, status |-> "", button |-> "Start", paused |-> TRUE,
     srcObject |-> FALSE, starting |-> 0, listening |-> FALSE]

\* the methods class OdometryModule defines
OdometryMethods == {"start", "updateVisuals", "handleMotion", "getPosition"}

\* stop() at Date.now() = now: this.odometry.stop() throws a TypeError
\* when OdometryModule has no such method, and the rest is not run
acStop(a, am, now) ==
    LET halted == [a EXCEPT !.isRunning = FALSE]
        said == amAnnounce(am, "System stopped.", 1, now)
    IN  IF "stop" \notin OdometryMethods
        THEN [ac |-> halted, am |-> am, threw |-> TRUE, announced |-> FALSE]
        ELSE [ac |-> [halted EXCEPT !.paused = TRUE, !.srcObject = FALSE,
                                    !.button = "Start", !.status = "System Idle"],
              am |-> said.am, threw |-> FALSE, announced |-> TRUE]

\* start() up to its first await
acStart(a, am, now) ==
    IF a.isRunning
    THEN acStop(a, am, now)
    ELSE [ac |-> [a EXCEPT !.status = "Initializing...", !.button = "Loading...",
                           !.starting = @ + 1],
          am |-> am, threw |-> FALSE, announced |-> FALSE]

\* the pose of OdometryModule (millimetres, pi/1800 rad) in the units of
\* the guidance (decimetres, pi/36 rad)
NavPose(pos) ==
    [x |-> pos.x \div 100, y |-> pos.y \div 100, heading |-> pos.heading \div 50]

\* loop() from its first line to `await this.vision.detect(this.video)':
\* parts A, B and the call of part C, at Date.now() = now
acLoopHead(a, o, v, m, vm, video, now) ==
    LET u == IF video.readyState >= 2
             THEN omUpdateVisuals(o, v, video)
             ELSE [om |-> o, vo |-> v, flow |-> 0]
        g == omGetPosition(u.om)
        d == IF video.readyState >= 2
             THEN vmDetect(vm, video, now)
             ELSE [vm |-> vm, ret |-> Undefined, inference |-> FALSE]
    IN  [om |-> g.om, vo |-> u.vo, minimap |-> miniMapUpdate(m, g.ret), vision |-> d.vm,
         pos |-> g.ret, detect |-> d.ret, inference |-> d.inference]

\* one call of loop() at Date.now() = now, up to its await or to its end.
\* chain is what is left of the chain afterwards: nothing when isRunning is
\* false, the iteration suspended in its await with its local pos when an
\* inference was started, and otherwise (the await of a value that is
\* there resumes before any other event is handled) the next call,
\* scheduled by requestAnimationFrame after part D has run
acLoop(a, o, v, m, vm, state, target, am, video, now) ==
    LET h == acLoopHead(a, o, v, m, vm, video, now)
        d == acNavigate(state, target, am, NavPose(h.pos), now)
    IN  IF ~a.isRunning
        THEN [om |-> o, vo |-> v, minimap |-> m, vision |-> vm, state |-> state,
              am |-> am, chain |-> <<>>, read |-> <<>>, pos |-> <<>>,
              detect |-> Undefined, inference |-> FALSE]
        ELSE IF h.inference
        THEN [om |-> h.om, vo |-> h.vo, minimap |-> h.minimap, vision |-> h.vision,
              state |-> state, am |-> am,
              chain |-> <<[at |-> "detect", pos |-> Object(h.pos)]>>,
              read |-> Object(h.pos), pos |-> <<>>,
              detect |-> h.detect, inference |-> TRUE]
        ELSE [om |-> h.om, vo |-> h.vo, minimap |-> h.minimap, vision |-> h.vision,
              state |-> d.state, am |-> d.am,
              chain |-> <<[at |-> "frame", pos |-> <<>>]>>,
              read |-> Object(h.pos), pos |-> Object(h.pos),
              detect |-> h.detect, inference |-> FALSE]

----------------------------------------------------------------------------
(* The service worker, sw.js of integrated-app *)

\* the requests the page makes: ASSETS of its own origin, ASSETS of the
\* CDN, and the files fetched at run time from its own origin and from
\* other origins (the model files of coco-ssd)
Requests ==
    {"./js/app.js", "tf.min.js", "./icon.png", "./css/style.css", "model.json",
     "group1-shard1of5.bin"}
sameOrigin == {"./js/app.js", "./icon.png", "./css/style.css"}
ASSETS == {"./js/app.js", "tf.min.js"}

newServiceWorker == [installed |-> FALSE, cache |-> {}, online |-> TRUE]

\* the install handler: cache.addAll(ASSETS), which needs the network
swInstall(w) ==
    IF w.online THEN [w EXCEPT !.installed = TRUE, !.cache = @ \cup ASSETS] ELSE w

\* networkResponse.type of a response to request
ResponseType(request) == IF request \in sameOrigin THEN "basic" ELSE "cors"

\* Mutant: the fetch handler caching every response with status 200
swFetchCachesAll(w, request, status) ==
    IF request \in w.cache
    THEN [sw |-> w, answer |-> "cache"]
    ELSE IF ~w.online
    THEN [sw |-> w, answer |-> "error"]
    ELSE IF status # 200
    THEN [sw |-> w, answer |-> "network"]
    ELSE [sw |-> [w EXCEPT !.cache = @ \cup {request}], answer |-> "network"]

\* the fetch handler; status is the status of the network response, and
\* fetch rejects when the network is unavailable
swFetch(w, request, status) ==
    IF request \in w.cache
    THEN [sw |-> w, answer |-> "cache"]
    ELSE IF ~w.online
    THEN [sw |-> w, answer |-> "error"]
    ELSE IF status # 200 \/ ResponseType(request) # "basic"
    THEN [sw |-> w, answer |-> "network"]
    ELSE [sw |-> [w EXCEPT !.cache = @ \cup {request}], answer |-> "network"]

----------------------------------------------------------------------------
(* The state machine *)

Apps == {"integrated-app", "indoor-nav-pwa"}

NavStates == {"IDLE", "ROTATING", "MOVING", "ARRIVED"}

Pose(x, y, heading) == [x |-> x, y |-> y, heading |-> heading]

NoCall ==
    [op |-> "new", prev |-> "IDLE", arg |-> <<>>, ret |-> <<>>,
     speak |-> <<>>, spoken |-> <<>>, vibrate |-> <<>>]

\* no geometry computation made yet
NoGeoCall == [op |-> "new", arg |-> <<>>, ret |-> Dbl(0), bearingOf |-> <<>>]

\* no call made yet on the HeadingEstimator or the OdometryModule
NoOdoCall ==
    [op |-> "new", heading |-> 0, lastTime |-> 0, gyro |-> FALSE, rate |-> 0,
     now |-> 0, degrees |-> 0, nth |-> 0]

\* nothing done yet: the fields of the last call, then the clock (the last
\* value Date.now() or performance.now() returned) and the history
NoStepCall ==
    [op |-> "new",
     sample |-> <<>>,       \* e.accelerationIncludingGravity
     above |-> FALSE,       \* the filtered magnitude is above the threshold
     outside |-> FALSE,     \* the refractory interval has passed
     gate |-> FALSE,        \* isMoving when the sample arrived
     fired |-> FALSE,       \* a step was counted
     moved |-> FALSE,       \* x, y or stepCount changed
     theta |-> 0,           \* the heading when the sample arrived
     dx |-> 0, dy |-> 0,    \* the change of x and y
     video |-> <<>>,        \* the video processed
     prevFrame |-> <<>>,    \* prevFrame before the call
     ret |-> JsUndefined,   \* the value returned by process or processFrame
     pose |-> <<>>,         \* the object returned by getPosition
     lastPose |-> <<>>,     \* the one returned by the call before, if it was getPosition
     now |-> 0,             \* the clock
     excursionSteps |-> 0,  \* steps counted since the magnitude last was not above
     prevStepTime |-> 0,    \* the time of the step before the last one
     everAbove |-> FALSE,   \* some sample was above the threshold
     first |-> FALSE,       \* the sample is the first one since the page loaded
     sampled |-> FALSE,     \* an accelerometer sample has arrived
     visuals |-> FALSE,     \* updateVisuals has been called
     turned |-> FALSE]      \* a step was taken at a heading other than 0

\* the fields of the last call cleared, clock and history kept
Cleared(c) ==
    [NoStepCall EXCEPT !.now = c.now, !.excursionSteps = c.excursionSteps,
                       !.prevStepTime = c.prevStepTime, !.everAbove = c.everAbove,
                       !.sampled = c.sampled, !.visuals = c.visuals,
                       !.turned = c.turned]

\* nothing announced yet; now is the clock
NoVoiceCall ==
    [op |-> "new", now |-> 0, text |-> Null, priority |-> 0, last |-> 0,
     spoken |-> FALSE, cancelled |-> FALSE, event |-> Null, pattern |-> <<>>]

\* nothing started yet
NoLoopCall ==
    [op |-> "new",
     threw |-> FALSE,       \* the call ended in an exception
     announced |-> FALSE,   \* stop() reached its announce
     read |-> <<>>,         \* the pose getPosition returned to the call
     pos |-> <<>>,          \* the pose the call gave to nav.update
     detect |-> Undefined,  \* what vision.detect returned to the call
     inference |-> FALSE,   \* the call started an inference
     video |-> <<>>,        \* the video the call looked at
     loaded |-> FALSE,      \* isLoaded and lastRun before the call
     lastRun |-> 0,
     now |-> 0]             \* Date.now() during the call

\* nothing fetched yet; fetched holds the requests answered by the network
\* with status 200 so far
NoFetch == [op |-> "new", request |-> "", answer |-> "", fetched |-> {}]

Init ==
    /\ app \in Apps
    /\ nmState = "IDLE"
    /\ nmTarget = <<>>
    /\ navState = "IDLE"
    /\ navTarget = <<>>
    /\ navUser = Pose(0, 0, 0)
    /\ lastSpokenTime = 0
    /\ call = NoCall
    /\ geoCall = NoGeoCall
    /\ he = newHeadingEstimator
    /\ om = newOdometryModule
    /\ odoCall = NoOdoCall
    /\ sd = newStepDetector
    /\ pt = newPositionTracker
    /\ vo = IF app = "integrated-app" THEN newVisualOdometry ELSE newVisualOdometryPwa
    /\ minimap = newMiniMap
    /\ stepCall = NoStepCall
    /\ access = IF app = "integrated-app" THEN newAccessibilityModule
                ELSE newFeedbackManager
    /\ voiceCall = NoVoiceCall
    /\ ac = newAppController
    /\ chains = <<>>
    /\ vision = newVisionModule
    /\ loopCall = NoLoopCall
    /\ sw = newServiceWorker
    /\ swCall = NoFetch

NavigationModuleSetTarget ==
    /\ app = "integrated-app"
    /\ \E t \in Targets :
          LET r == nmSetTarget(t[1], t[2])
          IN  /\ nmTarget' = r.target
              /\ nmState' = r.state
              /\ call' = [op |-> "setTarget", prev |-> nmState, arg |-> t,
                          ret |-> <<r.ret>>, speak |-> <<>>, spoken |-> <<>>,
                          vibrate |-> <<>>]
    /\ UNCHANGED <<app, navState, navTarget, navUser, lastSpokenTime, geoCall, odoVars, stepVars, appVars>>

NavigationModuleUpdate ==
    /\ app = "integrated-app"
    /\ \E p \in Positions, h \in HeadingsRad :
          LET r == nmUpdate(nmState, nmTarget, Pose(p[1], p[2], h))
          IN  /\ nmState' = r.state
              /\ call' = [op |-> "update", prev |-> nmState, arg |-> <<p[1], p[2], h>>,
                          ret |-> r.ret, speak |-> <<>>, spoken |-> <<>>,
                          vibrate |-> <<>>]
    /\ UNCHANGED <<app, nmTarget, navState, navTarget, navUser, lastSpokenTime, geoCall,
                   odoVars, stepVars, appVars>>

\* The engine.speak calls of one Navigator call, made at Date.now() = now
EngineCalls(speak, now) ==
    IF speak = <<>>
    THEN [spoken |-> <<>>, lastSpokenTime |-> lastSpokenTime]
    ELSE LET e == engineSpeak(lastSpokenTime, FALSE, now)
         IN  [spoken |-> IF e.spoken THEN speak ELSE <<>>,
              lastSpokenTime |-> e.lastSpokenTime]

NavigatorSetTarget ==
    /\ app = "indoor-nav-pwa"
    /\ \E t \in Targets, now \in Times :
          LET r == navSetTarget(t[1], t[2])
              e == EngineCalls(r.speak, now)
          IN  /\ now >= lastSpokenTime
              /\ navTarget' = r.target
              /\ navState' = r.state
              /\ lastSpokenTime' = e.lastSpokenTime
              /\ call' = [op |-> "setTarget", prev |-> navState, arg |-> t,
                          ret |-> <<>>, speak |-> r.speak, spoken |-> e.spoken,
                          vibrate |-> <<>>]
    /\ UNCHANGED <<app, nmState, nmTarget, navUser, geoCall, odoVars, stepVars, appVars>>

NavigatorUpdate ==
    /\ app = "indoor-nav-pwa"
    /\ \E p \in Positions, h \in HeadingsDeg :
          LET r == navUpdate(navState, navTarget, p[1], p[2], h)
          IN  /\ navUser' = Pose(p[1], p[2], h)
              /\ navState' = r.state
              /\ \E now \in IF r.speak = <<>> THEN {StartTime} ELSE Times :
                    LET e == EngineCalls(r.speak, now)
                    IN  /\ now >= lastSpokenTime
                        /\ lastSpokenTime' = e.lastSpokenTime
                        /\ call' = [op |-> "update", prev |-> navState,
                                    arg |-> <<p[1], p[2], h>>, ret |-> <<>>,
                                    speak |-> r.speak, spoken |-> e.spoken,
                                    vibrate |-> r.vibrate]
    /\ UNCHANGED <<app, nmState, nmTarget, navTarget, geoCall, odoVars, stepVars, appVars>>

Next ==
    \/ NavigationModuleSetTarget
    \/ NavigationModuleUpdate
    \/ NavigatorSetTarget
    \/ NavigatorUpdate

Spec == Init /\ [][Next]_vars

----------------------------------------------------------------------------
(* The geometry of guidance, applied to points and angles of its own.      *)

\* Points (x, y) as doubles, in decimetres: x is 0, 5 m, or what a step
\* taken at heading pi or 2 pi leaves next to 0; y is 0 or 5 m.
GeoPoints ==
    {<<x, y>> : x \in {Dbl(0), Residue(1), Residue(-1), Dbl(50)}, y \in {Dbl(0), Dbl(50)}}

\* Headings and bearings in tenths of a degree, inside and outside [0, 360]
GeoAngles == {-5400, -1800, -900, 0, 450, 900, 1800, 2700, 3590, 3600, 7200}

\* Headings of NavigationModule, in units of pi/36 rad: -pi, 0, pi/4, pi/2, pi, 3pi/2, 2pi
GeoHeadingsRad == {-36, 0, 9, 18, 36, 54, 72}

\* GeometryUtils.getBearing(from.x, from.y, to.x, to.y)
GeometryGetBearing ==
    /\ app = "indoor-nav-pwa"
    /\ \E from \in GeoPoints, to \in GeoPoints :
          geoCall' = [op |-> "getBearing", arg |-> <<from, to>>,
                      ret |-> getBearingDouble(from[1], from[2], to[1], to[2]),
                      bearingOf |-> <<>>]
    /\ UNCHANGED <<app, navVars, odoVars, stepVars, appVars>>

\* GeometryUtils.getAngleDiff(currentHeading, targetBearing), on angles of
\* GeoAngles or, as Navigator.update does, on the bearing just computed;
\* bearingOf keeps the points of a bearing passed as both arguments
GeometryGetAngleDiff ==
    /\ app = "indoor-nav-pwa"
    /\ \/ \E currentHeading \in GeoAngles, targetBearing \in GeoAngles :
             geoCall' = [op |-> "getAngleDiff",
                         arg |-> <<Dbl(currentHeading), Dbl(targetBearing)>>,
                         ret |-> getAngleDiffDouble(Dbl(currentHeading), Dbl(targetBearing)),
                         bearingOf |-> <<>>]
       \/ /\ geoCall.op = "getBearing"
          /\ geoCall' = [op |-> "getAngleDiff", arg |-> <<geoCall.ret, geoCall.ret>>,
                         ret |-> getAngleDiffDouble(geoCall.ret, geoCall.ret),
                         bearingOf |-> geoCall.arg]
    /\ UNCHANGED <<app, navVars, odoVars, stepVars, appVars>>

\* the bearing computed in NavigationModule.update, for a pose and a target
NavigationModuleBearing ==
    /\ app = "integrated-app"
    /\ \E userPos \in GeoPoints, target \in GeoPoints :
          geoCall' = [op |-> "bearing", arg |-> <<userPos, target>>,
                      ret |-> nmBearing(SubDouble(target[1], userPos[1]),
                                        SubDouble(target[2], userPos[2])),
                      bearingOf |-> <<>>]
    /\ UNCHANGED <<app, navVars, odoVars, stepVars, appVars>>

\* the diff computed in NavigationModule.update, for a heading and a bearing
NavigationModuleAngleDiff ==
    /\ app = "integrated-app"
    /\ \E heading \in GeoHeadingsRad, bearing \in {a \in GeoAngles : 0 <= a /\ a <= 360 * AngleScale} :
          geoCall' = [op |-> "diff", arg |-> <<Dbl(RadToDeg(heading)), Dbl(bearing)>>,
                      ret |-> nmAngleDiff(Dbl(bearing), Dbl(RadToDeg(heading))),
                      bearingOf |-> <<>>]
    /\ UNCHANGED <<app, navVars, odoVars, stepVars, appVars>>

NextGeo ==
    \/ GeometryGetBearing
    \/ GeometryGetAngleDiff
    \/ NavigationModuleBearing
    \/ NavigationModuleAngleDiff

SpecGeo == Init /\ [][NextGeo]_vars

----------------------------------------------------------------------------
(* Dead reckoning, driven by sensor events.                                *)

MaxCounted == 3     \* heading updates are counted up to the third

\* e.timeStamp in milliseconds; 0 is the value `e.timeStamp || ...' replaces
EventTimes == {0, 1000, 2000}

\* Date.now() in milliseconds
DateNows == {5000, 6000}

\* rotationRate.alpha in degrees per second
YawRates == {-90, 0, 90}

\* e.rotationRate: alpha is null on a device without gyroscope
RotationRates == {[alpha |-> <<>>]} \cup {[alpha |-> Object(r)] : r \in YawRates}

\* compass readings handed to setAbsoluteHeading, in degrees
CompassDegrees == {-90, 0, 90, 360, 720}

\* filtered accelerations along z: rest (1 g), and just above 1.2 g
AccelLevels == {981, 1178}

\* e.accelerationIncludingGravity: null, or the sample that takes the
\* filtered acceleration from (0, 0, last) to (0, 0, level)
AccelerationsTo(levels, last) ==
    {<<>>} \cup {Object([x |-> 0, y |-> 0, z |-> 5 * level - 4 * last.z]) : level \in levels}
Accelerations(last) == AccelerationsTo(AccelLevels, last)

Count(n) == IF n < MaxCounted THEN n + 1 ELSE MaxCounted

\* headingEstimator.update(rotationRate, timestamp)
HeadingEstimatorUpdate ==
    /\ app = "indoor-nav-pwa"
    /\ \E rotationRate \in RotationRates, timestamp \in EventTimes :
          /\ he' = heUpdate(he, rotationRate, timestamp)
          /\ odoCall' = [op |-> "update", heading |-> he.heading, lastTime |-> he.lastTime,
                         gyro |-> TRUE, rate |-> OrZero(rotationRate.alpha),
                         now |-> timestamp, degrees |-> 0, nth |-> Count(odoCall.nth)]
    /\ UNCHANGED <<app, navVars, geoCall, om, stepVars, appVars>>

\* headingEstimator.setAbsoluteHeading(degrees)
HeadingEstimatorSetAbsoluteHeading ==
    /\ app = "indoor-nav-pwa"
    /\ \E degrees \in CompassDegrees :
          /\ he' = heSetAbsoluteHeading(he, degrees)
          /\ odoCall' = [op |-> "setAbsoluteHeading", heading |-> he.heading,
                         lastTime |-> he.lastTime, gyro |-> FALSE, rate |-> 0,
                         now |-> 0, degrees |-> degrees, nth |-> odoCall.nth]
    /\ UNCHANGED <<app, navVars, geoCall, om, stepVars, appVars>>

\* the devicemotion listener of OdometryModule: handleMotion(e)
OdometryHandleMotion ==
    /\ app = "integrated-app"
    /\ \E acc \in Accelerations(om.lastAccel),
          rot \in {<<>>} \cup {Object(r) : r \in RotationRates},
          timeStamp \in EventTimes, dateNow1 \in DateNows, dateNow2 \in DateNows :
          LET e == [accelerationIncludingGravity |-> acc, rotationRate |-> rot,
                    timeStamp |-> timeStamp]
          IN  /\ om.lastStepTime <= dateNow1
              /\ dateNow1 <= dateNow2
              /\ om' = omHandleMotion(om, e, dateNow1, dateNow2)
              /\ odoCall' = [op |-> "handleMotion", heading |-> om.heading,
                             lastTime |-> om.lastGyroTime, gyro |-> ~IsNull(rot),
                             rate |-> IF IsNull(rot) THEN 0 ELSE OrZero(Deref(rot).alpha),
                             now |-> omNow(timeStamp, dateNow2), degrees |-> 0,
                             nth |-> IF IsNull(rot) THEN odoCall.nth ELSE Count(odoCall.nth)]
    /\ UNCHANGED <<app, navVars, geoCall, he, stepVars, appVars>>

NextOdo ==
    \/ HeadingEstimatorUpdate
    \/ HeadingEstimatorSetAbsoluteHeading
    \/ OdometryHandleMotion

SpecOdo == Init /\ [][NextOdo]_vars

----------------------------------------------------------------------------
(* Speech: what the guidance of integrated-app and the callers of          *)
(* FeedbackManager get announced.                                          *)

\* texts given to FeedbackManager.announce
FeedbackTexts == {"", "Obstacle ahead."}

\* AppController.setTarget(), at Date.now() = now
AppSetTarget ==
    /\ app = "integrated-app"
    /\ \E now \in Times :
          LET r == nmSetTarget(0, 50)
              said == amAnnounce(access, r.ret, 2, now)
          IN  /\ voiceCall.now <= now
              /\ nmTarget' = r.target
              /\ nmState' = r.state
              /\ minimap' = miniMapSetTarget(minimap, 0, 5000)
              /\ access' = said.am
              /\ voiceCall' = [NoVoiceCall EXCEPT !.op = "setTarget", !.now = now,
                                                  !.text = r.ret, !.priority = 2,
                                                  !.last = access.lastSpoken,
                                                  !.spoken = said.spoken,
                                                  !.cancelled = said.cancelled]
    /\ UNCHANGED <<app, navState, navTarget, navUser, lastSpokenTime, call, geoCall,
                   odoVars, sd, pt, vo, stepCall, loopVars, swVars>>

\* the part of a loop() iteration after the pose was read and the frame
\* was looked at: this.nav.update(pos) and the feedback, at Date.now() = now
LoopNavigation ==
    /\ app = "integrated-app"
    /\ \E p \in Positions, h \in HeadingsRad, now \in Times :
          LET d == acNavigate(nmState, nmTarget, access, Pose(p[1], p[2], h), now)
          IN  /\ voiceCall.now <= now
              /\ nmState' = d.state
              /\ access' = d.am
              /\ voiceCall' = [op |-> "loop", now |-> now, text |-> d.text,
                               priority |-> d.priority, last |-> access.lastSpoken,
                               spoken |-> d.spoken, cancelled |-> d.cancelled,
                               event |-> d.event, pattern |-> d.pattern]
    /\ UNCHANGED <<app, nmTarget, navState, navTarget, navUser, lastSpokenTime, call,
                   geoCall, odoVars, stepVars, loopVars, swVars>>

\* a call of FeedbackManager.announce(text, priority)
FeedbackAnnounce ==
    /\ app = "indoor-nav-pwa"
    /\ \E text \in FeedbackTexts, priority \in 0..2, speaking \in BOOLEAN,
          now1 \in Times, now2 \in Times :
          LET said == fmAnnounce(access, text, priority, speaking, now1, now2)
          IN  /\ voiceCall.now <= now1
              /\ now1 <= now2
              /\ access' = said.fm
              /\ voiceCall' = [NoVoiceCall EXCEPT !.op = "announce", !.now = now2,
                                                  !.text = text, !.priority = priority,
                                                  !.last = access.lastSpokenTime,
                                                  !.spoken = said.spoken,
                                                  !.cancelled = said.cancelled]
    /\ UNCHANGED <<app, navVars, geoCall, odoVars, stepVars, loopVars, swVars>>

NextVoice ==
    \/ AppSetTarget
    \/ LoopNavigation
    \/ FeedbackAnnounce

SpecVoice == Init /\ [][NextVoice]_vars

----------------------------------------------------------------------------
(* Walking: steps, the motion-confidence gate and the pose, driven by      *)
(* sensor events, video frames and the reads of the main loop.             *)

\* Date.now() and performance.now() in milliseconds: the gaps are 200 to 500 ms
StepTimes == {1000, 1300, 1500}

\* filtered accelerations along z: 0.2 g, which is where a first sample of
\* 1 g leaves the filter, and just above 1.2 g
StepLevels == {196, 1178}

\* e.rotationRate: null, or a turn of 900 degrees per second (a quarter
\* turn every 100 ms)
StepRotations == {<<>>, Object([alpha |-> Object(900)])}

\* the trail of the minimap is followed up to this many points
MaxPath == 2

\* frames of two pixels
Frames == {<<0, 0>>, <<30, 30>>}

\* the video: not ready (HAVE_METADATA), or ready with a frame to draw
Videos ==
    {[readyState |-> 1, frame |-> <<0, 0>>]} \cup {[readyState |-> 4, frame |-> f] : f \in Frames}

\* the filtered sample a, which lies along z as every sample does here, is
\* above t tenths of g
AboveLevel(a, t) == 10 * a.z > t * gravity

\* the clock and the history after a devicemotion event
Sensed(c, sample, above, fired, lastStepTime, theta, dateNow) ==
    [c EXCEPT !.now = dateNow,
              !.excursionSteps = IF IsNull(sample) THEN @
                                 ELSE IF above THEN @ + (IF fired THEN 1 ELSE 0)
                                 ELSE 0,
              !.prevStepTime = IF fired THEN lastStepTime ELSE @,
              !.everAbove = @ \/ above,
              !.first = ~IsNull(sample) /\ ~c.sampled,
              !.sampled = @ \/ ~IsNull(sample),
              !.turned = @ \/ (fired /\ theta # 0)]

\* the devicemotion listener of OdometryModule, handleMotion(e), on a
\* browser whose events carry no timeStamp, the clock not advancing while
\* the handler runs
OdometryMotion ==
    /\ app = "integrated-app"
    /\ \E acc \in AccelerationsTo(StepLevels, om.lastAccel), rot \in StepRotations,
          dateNow \in StepTimes :
          LET e == [accelerationIncludingGravity |-> acc, rotationRate |-> rot,
                    timeStamp |-> 0]
              n == omHandleMotion(om, e, dateNow, dateNow)
              above == ~IsNull(acc) /\ AboveLevel(n.lastAccel, 12)
              fired == n.stepCount # om.stepCount
          IN  /\ stepCall.now <= dateNow
              /\ om' = n
              /\ stepCall' =
                    [Sensed(Cleared(stepCall), acc, above, fired, om.lastStepTime,
                            om.heading, dateNow)
                       EXCEPT !.op = "handleMotion", !.sample = acc, !.above = above,
                              !.outside = dateNow - om.lastStepTime > 400,
                              !.gate = om.isMoving, !.fired = fired,
                              !.moved = <<n.x, n.y, n.stepCount>> # <<om.x, om.y, om.stepCount>>,
                              !.theta = om.heading, !.dx = n.x - om.x, !.dy = n.y - om.y]
    /\ UNCHANGED <<app, navVars, geoCall, he, odoCall, sd, pt, vo, minimap, appVars>>

\* OdometryModule.updateVisuals(video)
OdometryUpdateVisuals ==
    /\ app = "integrated-app"
    /\ \E video \in Videos :
          LET u == omUpdateVisuals(om, vo, video)
          IN  /\ om' = u.om
              /\ vo' = u.vo
              /\ stepCall' = [Cleared(stepCall) EXCEPT !.op = "updateVisuals",
                                                       !.video = Object(video),
                                                       !.prevFrame = vo.prevFrame,
                                                       !.ret = JsNumber(u.flow),
                                                       !.visuals = TRUE]
    /\ UNCHANGED <<app, navVars, geoCall, he, odoCall, sd, pt, minimap, appVars>>

\* OdometryModule.getPosition(), as AppController.loop calls it
OdometryGetPosition ==
    /\ app = "integrated-app"
    /\ LET g == omGetPosition(om)
       IN  /\ om' = g.om
           /\ stepCall' = [Cleared(stepCall) EXCEPT !.op = "getPosition",
                                                    !.pose = Object(g.ret),
                                                    !.lastPose = stepCall.pose,
                                                    !.moved = g.om # om]
    /\ UNCHANGED <<app, navVars, geoCall, he, odoCall, sd, pt, vo, minimap, appVars>>

\* this.minimap.update(pos), which AppController.loop calls with the pose
\* getPosition has just returned
MiniMapUpdate ==
    /\ app = "integrated-app"
    /\ stepCall.op = "getPosition"
    /\ Len(minimap.path) < MaxPath
    /\ minimap' = miniMapUpdate(minimap, Deref(stepCall.pose))
    /\ stepCall' = [Cleared(stepCall) EXCEPT !.op = "minimap.update"]
    /\ UNCHANGED <<app, navVars, geoCall, odoVars, sd, pt, vo, appVars>>

\* the devicemotion listener of PositionTracker, on a browser whose events
\* carry no timeStamp, the clock not advancing while the handler runs
PositionTrackerMotion ==
    /\ app = "indoor-nav-pwa"
    /\ \E acc \in AccelerationsTo(StepLevels, sd.lastAccel), rot \in StepRotations,
          now \in StepTimes :
          LET e == [accelerationIncludingGravity |-> acc, rotationRate |-> rot,
                    timeStamp |-> 0]
              n == ptDeviceMotion(sd, pt, he, e, now, now)
              above == ~IsNull(acc) /\ AboveLevel(n.sd.lastAccel, 12)
          IN  /\ stepCall.now <= now
              /\ sd' = n.sd
              /\ pt' = n.pt
              /\ he' = n.he
              /\ stepCall' =
                    [Sensed(Cleared(stepCall), acc, above, n.onStep, sd.lastStepTime,
                            he.heading, now)
                       EXCEPT !.op = "devicemotion", !.sample = acc, !.above = above,
                              !.outside = now - sd.lastStepTime > 300,
                              !.gate = TRUE, !.fired = n.onStep,
                              !.moved = <<n.pt.x, n.pt.y, n.sd.stepCount>>
                                            # <<pt.x, pt.y, sd.stepCount>>,
                              !.theta = he.heading, !.dx = n.pt.x - pt.x,
                              !.dy = n.pt.y - pt.y]
    /\ UNCHANGED <<app, navVars, geoCall, om, odoCall, vo, minimap, appVars>>

\* this.visualOdometry.processFrame(), which updateLoop calls every frame
VisualOdometryProcessFrame ==
    /\ app = "indoor-nav-pwa"
    /\ \E video \in Videos :
          LET f == voProcessFrame(vo, video)
          IN  /\ vo' = f.vo
              /\ stepCall' = [Cleared(stepCall) EXCEPT !.op = "processFrame",
                                                       !.video = Object(video),
                                                       !.prevFrame = vo.prevFrame,
                                                       !.ret = f.ret]
    /\ UNCHANGED <<app, navVars, geoCall, odoVars, sd, pt, minimap, appVars>>

NextStep ==
    \/ OdometryMotion
    \/ OdometryUpdateVisuals
    \/ OdometryGetPosition
    \/ MiniMapUpdate
    \/ PositionTrackerMotion
    \/ VisualOdometryProcessFrame

SpecStep == Init /\ [][NextStep]_vars

----------------------------------------------------------------------------
(* The running application: start(), stop(), the loop() chains and the     *)
(* devicemotion events between their steps.  No target is set.  The clock  *)
(* is stepCall.now.                                                        *)

\* loop() chains followed, those that suspended start() calls are about to
\* begin included
MaxChains == 2

\* Date.now() in milliseconds: two events at the same millisecond, or half a
\* second apart
LoopTimes == {1000, 1500}

\* the devicemotion events while the user walks and turns: a footfall, the
\* filtered acceleration along z just above 1.2 g, and a turn of 900 degrees
\* per second
LoopSamples(last) == AccelerationsTo({1178}, last) \ {<<>>}
LoopRotations == StepRotations \ {<<>>}

\* the sequence q without its i-th element, and with the elements of r in
\* its place
Spliced(q, i, r) == SubSeq(q, 1, i - 1) \o r \o SubSeq(q, i + 1, Len(q))

\* what a loop() call leaves in the history
Looped(r, video, now) ==
    [NoLoopCall EXCEPT !.op = "loop", !.read = r.read, !.pos = r.pos,
                       !.detect = r.detect, !.inference = r.inference,
                       !.loaded = vision.isLoaded,
                       !.lastRun = vision.lastRun, !.now = now]

\* a press of the start button: start() up to its first await, or stop()
StartCall ==
    /\ app = "integrated-app"
    /\ \E now \in LoopTimes :
          LET r == acStart(ac, access, now)
          IN  /\ stepCall.now <= now
              /\ r.ac.starting + Len(chains) <= MaxChains
              /\ ac' = r.ac
              /\ access' = r.am
              /\ loopCall' = [NoLoopCall EXCEPT
                                 !.op = IF ac.isRunning THEN "stop" ELSE "start",
                                 !.threw = r.threw, !.announced = r.announced,
                                 !.now = now]
              /\ stepCall' = [stepCall EXCEPT !.now = now]
    /\ UNCHANGED <<app, navVars, geoCall, odoVars, sd, pt, vo, minimap, voiceCall,
                   chains, vision, swVars>>

\* a suspended start() goes on: the camera has failed, or it has started
\* and the model has loaded or failed to; the awaits are taken together
StartResume ==
    /\ app = "integrated-app"
    /\ ac.starting > 0
    /\ \/ /\ ac' = [ac EXCEPT !.starting = @ - 1, !.button = "Start"]
          /\ loopCall' = [NoLoopCall EXCEPT !.op = "start.failed", !.now = stepCall.now]
          /\ UNCHANGED <<om, vo, minimap, vision, nmState, access, chains, stepCall>>
       \/ \E loaded \in BOOLEAN, video \in Videos, now \in LoopTimes :
             LET a == [ac EXCEPT !.starting = @ - 1, !.srcObject = TRUE,
                                 !.paused = FALSE, !.status = "System Active",
                                 !.listening = TRUE, !.isRunning = TRUE,
                                 !.button = "Stop"]
                 r == acLoop(a, om, vo, minimap, vmLoad(vision, loaded), nmState,
                             nmTarget, access, video, now)
             IN  /\ stepCall.now <= now
                 /\ ac' = a
                 /\ om' = r.om
                 /\ vo' = r.vo
                 /\ minimap' = r.minimap
                 /\ vision' = r.vision
                 /\ nmState' = r.state
                 /\ access' = amAnnounce(r.am, "System started. Ready.", 2, now).am
                 /\ chains' = chains \o r.chain
                 /\ loopCall' = [Looped(r, video, now) EXCEPT
                                    !.op = "start.loop",
                                    !.loaded = vmLoad(vision, loaded).isLoaded]
                 /\ stepCall' = [stepCall EXCEPT !.now = now]
    /\ UNCHANGED <<app, nmTarget, navState, navTarget, navUser, lastSpokenTime, call,
                   geoCall, he, odoCall, sd, pt, voiceCall, swVars>>

\* the callback of requestAnimationFrame: a scheduled loop() call runs
LoopFrame ==
    /\ app = "integrated-app"
    /\ \E i \in 1..Len(chains), video \in Videos, now \in LoopTimes :
          LET r == acLoop(ac, om, vo, minimap, vision, nmState, nmTarget, access,
                          video, now)
          IN  /\ chains[i].at = "frame"
              /\ stepCall.now <= now
              /\ om' = r.om
              /\ vo' = r.vo
              /\ minimap' = r.minimap
              /\ vision' = r.vision
              /\ nmState' = r.state
              /\ access' = r.am
              /\ chains' = Spliced(chains, i, r.chain)
              /\ loopCall' = Looped(r, video, now)
              /\ stepCall' = [stepCall EXCEPT !.now = now]
    /\ UNCHANGED <<app, nmTarget, navState, navTarget, navUser, lastSpokenTime, call,
                   geoCall, he, odoCall, sd, pt, voiceCall, ac, swVars>>

\* the model answers, with no prediction above the score 0.6: the
\* suspended loop() call goes on with part D and schedules the next call
LoopResume ==
    /\ app = "integrated-app"
    /\ \E i \in 1..Len(chains), now \in LoopTimes :
          LET pos == Deref(chains[i].pos)
              d == acNavigate(nmState, nmTarget, access, NavPose(pos), now)
          IN  /\ chains[i].at = "detect"
              /\ stepCall.now <= now
              /\ nmState' = d.state
              /\ access' = d.am
              /\ chains' = Spliced(chains, i, <<[at |-> "frame", pos |-> <<>>]>>)
              /\ loopCall' = [NoLoopCall EXCEPT !.op = "loop.resume",
                                                !.pos = Object(pos), !.now = now]
              /\ stepCall' = [stepCall EXCEPT !.now = now]
    /\ UNCHANGED <<app, nmTarget, navState, navTarget, navUser, lastSpokenTime, call,
                   geoCall, odoVars, sd, pt, vo, minimap, voiceCall, ac, vision, swVars>>

\* a devicemotion event, once OdometryModule.start() has added a listener
LoopMotion ==
    /\ app = "integrated-app"
    /\ ac.listening
    /\ \E acc \in LoopSamples(om.lastAccel), rot \in LoopRotations,
          dateNow \in LoopTimes :
          LET e == [accelerationIncludingGravity |-> acc, rotationRate |-> rot,
                    timeStamp |-> 0]
          IN  /\ stepCall.now <= dateNow
              /\ om' = omHandleMotion(om, e, dateNow, dateNow)
              /\ loopCall' = [NoLoopCall EXCEPT !.op = "handleMotion", !.now = dateNow]
              /\ stepCall' = [stepCall EXCEPT !.now = dateNow]
    /\ UNCHANGED <<app, navVars, geoCall, he, odoCall, sd, pt, vo, minimap, voiceVars,
                   ac, chains, vision, swVars>>

NextLoop ==
    \/ StartCall
    \/ StartResume
    \/ LoopFrame
    \/ LoopResume
    \/ LoopMotion

SpecLoop == Init /\ [][NextLoop]_vars

----------------------------------------------------------------------------
(* The page behind its service worker: the worker is installed, the page   *)
(* requests files, and the network comes and goes.                         *)

\* networkResponse.status
Statuses == {200, 404}

\* the install event
SwInstall ==
    /\ app = "integrated-app"
    /\ ~sw.installed
    /\ sw' = swInstall(sw)
    /\ swCall' = [swCall EXCEPT !.op = "install", !.request = "", !.answer = ""]
    /\ UNCHANGED <<app, navVars, geoCall, odoVars, stepVars, voiceVars, loopVars>>

\* a fetch event of the installed worker; fetched collects the requests the
\* network has answered with status 200
SwFetch ==
    /\ app = "integrated-app"
    /\ sw.installed
    /\ \E request \in Requests, status \in Statuses :
          LET r == swFetch(sw, request, status)
          IN  /\ sw' = r.sw
              /\ swCall' = [op |-> "fetch", request |-> request, answer |-> r.answer,
                            fetched |-> IF r.answer = "network" /\ status = 200
                                        THEN swCall.fetched \cup {request}
                                        ELSE swCall.fetched]
    /\ UNCHANGED <<app, navVars, geoCall, odoVars, stepVars, voiceVars, loopVars>>

\* the network is lost, or is back
SwNetwork ==
    /\ app = "integrated-app"
    /\ sw' = [sw EXCEPT !.online = ~@]
    /\ swCall' = [swCall EXCEPT !.op = "network", !.request = "", !.answer = ""]
    /\ UNCHANGED <<app, navVars, geoCall, odoVars, stepVars, voiceVars, loopVars>>

NextSw ==
    \/ SwInstall
    \/ SwFetch
    \/ SwNetwork

SpecSw == Init /\ [][NextSw]_vars

----------------------------------------------------------------------------
(* Observations on the last call, used by the properties below.  Distances *)
(* are in decimetres and angles in tenths of a degree: the arrival radius  *)
(* of 1.5 m is 15, the deadbands of 10 and 20 degrees are 100 and 200.     *)

NmUpdated == app = "integrated-app" /\ call.op = "update" /\ ~IsNull(nmTarget)
NavUpdated == app = "indoor-nav-pwa" /\ call.op = "update" /\ ~IsNull(navTarget)

NmRet == Deref(call.ret)

\* squared distance from the pose of the last update to the target
NmDist2 == getDistance2(call.arg[1], call.arg[2], Deref(nmTarget).x, Deref(nmTarget).y)
NavDist2 == getDistance2(call.arg[1], call.arg[2], Deref(navTarget).x, Deref(navTarget).y)

\* angleDiff of the pose of the last update
NmDiff ==
    getAngleDiff(RadToDeg(call.arg[3]),
                 getBearing(call.arg[1], call.arg[2], Deref(nmTarget).x, Deref(nmTarget).y))
NavDiff ==
    getAngleDiff(call.arg[3],
                 getBearing(call.arg[1], call.arg[2], Deref(navTarget).x, Deref(navTarget).y))

NmSilent == NmRet.instruction = Null /\ NmRet.event = Null
NavSilent == call.speak = <<>> /\ call.vibrate = <<>>

\* vibration patterns of FeedbackManager.patterns, by event code
PatternOf(event) ==
    CASE event = "left" -> <<100, 50, 100>>
      [] event = "right" -> <<300>>
      [] event = "straight" -> <<50, 50, 50>>
      [] event = "arrived" -> <<500, 100, 500>>

----------------------------------------------------------------------------
(* C1 *)

\* C1: from any state with a target set, an update whose pose is closer than
\* the arrival radius (1.5 m) to the target leaves the machine in ARRIVED,
\* whatever the heading; for NavigationModule.update and for Navigator.update.
C1_ArrivalFromAnyState ==
    /\ (NmUpdated /\ NmDist2 < 15 * 15) => nmState = "ARRIVED"
    /\ (NavUpdated /\ NavDist2 < 15 * 15) => navState = "ARRIVED"

----------------------------------------------------------------------------
(* C2 *)

NmEntersArrived == call.prev # "ARRIVED" /\ nmState = "ARRIVED"
NavEntersArrived == call.prev # "ARRIVED" /\ navState = "ARRIVED"

\* C2: the "You have arrived." instruction and the arrived haptic event are
\* emitted on exactly the update calls that enter ARRIVED, and an update made
\* in ARRIVED with the pose still inside the arrival radius emits no
\* instruction and no event.
C2_ArrivedEdgeTriggered ==
    /\ NmUpdated =>
          /\ (NmRet.instruction = "You have arrived.") <=> NmEntersArrived
          /\ (NmRet.event = "arrived") <=> NmEntersArrived
          /\ (call.prev = "ARRIVED" /\ NmDist2 < 15 * 15) =>
                (NmSilent /\ nmState = "ARRIVED")
    /\ NavUpdated =>
          /\ (call.speak = <<"You have arrived.">>) <=> NavEntersArrived
          /\ (call.vibrate = <<PatternOf("arrived")>>) <=> NavEntersArrived
          /\ (call.prev = "ARRIVED" /\ NavDist2 < 15 * 15) =>
                (NavSilent /\ navState = "ARRIVED")

\* the second consecutive update inside the radius, in NavigationModule
C2_Witness ==
    /\ NmUpdated
    /\ call.prev = "ARRIVED"
    /\ NmDist2 = 10 * 10
    /\ NmSilent

----------------------------------------------------------------------------
(* C3 *)

\* C3: in ARRIVED, an update whose pose is farther than twice the arrival
\* radius (3.0 m) from the target moves the machine back to ROTATING; for
\* NavigationModule.update and for Navigator.update.
C3_LeavesArrivedBeyondTwiceRadius ==
    /\ (NmUpdated /\ call.prev = "ARRIVED" /\ NmDist2 > 30 * 30) => nmState = "ROTATING"
    /\ (NavUpdated /\ call.prev = "ARRIVED" /\ NavDist2 > 30 * 30) => navState = "ROTATING"

----------------------------------------------------------------------------
(* C4 *)

\* C4: setTarget(x, y), called in any prior state, stores (x, y) as the
\* target, sets the state to ROTATING and yields the "destination set"
\* instruction (returned by NavigationModule, handed to engine.speak by
\* Navigator); called in ARRIVED it leaves ARRIVED, which re-arms the
\* arrival edge.
C4_SetTargetRestarts ==
    /\ (app = "integrated-app" /\ call.op = "setTarget") =>
          /\ nmTarget = <<[x |-> call.arg[1], y |-> call.arg[2]]>>
          /\ nmState = "ROTATING"
          /\ call.ret = <<"New destination set. Turn to face target.">>
    /\ (app = "indoor-nav-pwa" /\ call.op = "setTarget") =>
          /\ navTarget = <<[x |-> call.arg[1], y |-> call.arg[2]]>>
          /\ navState = "ROTATING"
          /\ call.speak = <<"New destination set.">>

\* setTarget called in ARRIVED with a target other than the one arrived at
C4_Witness ==
    /\ app = "indoor-nav-pwa"
    /\ call.op = "setTarget"
    /\ call.prev = "ARRIVED"
    /\ call.arg = <<50, 50>>
    /\ navState = "ROTATING"

----------------------------------------------------------------------------
(* C5 *)

\* C5: with no target set the state is IDLE, and update returns null, hands
\* nothing to the speech or vibration engine and leaves the state IDLE, for
\* every pose and after any number of update calls.
C5_NoTargetIsIdle ==
    /\ (app = "integrated-app" /\ IsNull(nmTarget)) =>
          /\ nmState = "IDLE"
          /\ call.op = "update" => call.ret = <<>>
    /\ (app = "indoor-nav-pwa" /\ IsNull(navTarget)) =>
          /\ navState = "IDLE"
          /\ call.op = "update" => NavSilent /\ call.spoken = <<>>

\* an update made without target, at (1, 5) with heading pi/2
C5_Witness ==
    /\ app = "integrated-app"
    /\ IsNull(nmTarget)
    /\ call.op = "update"
    /\ call.arg = <<10, 50, 18>>
    /\ nmState = "IDLE"

----------------------------------------------------------------------------
(* C6 *)

\* C6: in ROTATING with the pose outside the arrival radius, an update with
\* |angleDiff| < 10 degrees moves to MOVING in that call and emits
\* "Walk forward." with the straight haptic event; "Walk forward." and
\* straight are emitted only on a call that goes from ROTATING to MOVING.
C6_RotatingToMoving ==
    /\ NmUpdated =>
          /\ (call.prev = "ROTATING" /\ NmDist2 >= 15 * 15 /\ Abs(NmDiff) < 100) =>
                /\ nmState = "MOVING"
                /\ NmRet.instruction = "Walk forward."
                /\ NmRet.event = "straight"
          /\ (NmRet.instruction = "Walk forward." \/ NmRet.event = "straight") =>
                (call.prev = "ROTATING" /\ nmState = "MOVING")
    /\ NavUpdated =>
          /\ (call.prev = "ROTATING" /\ NavDist2 >= 15 * 15 /\ Abs(NavDiff) < 100) =>
                /\ navState = "MOVING"
                /\ call.speak = <<"Walk forward.">>
                /\ call.vibrate = <<PatternOf("straight")>>
          /\ (call.speak = <<"Walk forward.">> \/ call.vibrate = <<PatternOf("straight")>>) =>
                (call.prev = "ROTATING" /\ navState = "MOVING")

\* scenario B: target (0, 5), first update at (0, 0) with heading 0
C6_Witness ==
    /\ NmUpdated
    /\ nmTarget = <<[x |-> 0, y |-> 50]>>
    /\ call.arg = <<0, 0, 0>>
    /\ call.prev = "ROTATING"
    /\ nmState = "MOVING"
    /\ NmRet.instruction = "Walk forward."

----------------------------------------------------------------------------
(* C7 *)

\* the turn instruction of the claim: direction by the sign of angleDiff,
\* then the rounded magnitude
TurnText(angleDiff) ==
    (IF angleDiff > 0 THEN "Turn right " ELSE "Turn left ")
        \o ToString(Round(Abs(angleDiff))) \o " degrees."

\* C7: in ROTATING with the pose outside the arrival radius and
\* |angleDiff| >= 10 degrees, every update leaves the state ROTATING and emits
\* a turn instruction: right when angleDiff > 0 and left otherwise, with the
\* rounded magnitude of angleDiff.
C7_TurnInstructionWhileRotating ==
    /\ (NmUpdated /\ call.prev = "ROTATING" /\ NmDist2 >= 15 * 15 /\ Abs(NmDiff) >= 100) =>
          /\ nmState = "ROTATING"
          /\ NmRet.instruction = TurnText(NmDiff)
    /\ (NavUpdated /\ call.prev = "ROTATING" /\ NavDist2 >= 15 * 15 /\ Abs(NavDiff) >= 100) =>
          /\ navState = "ROTATING"
          /\ call.speak = <<TurnText(NavDiff)>>

----------------------------------------------------------------------------
(* C8 *)

\* C8: while ROTATING and not aligned, a directional haptic event (left or
\* right, by the sign of angleDiff) accompanies the update if and only if
\* |angleDiff| > 45 degrees.
C8_DirectionalHapticAbove45 ==
    /\ (NmUpdated /\ call.prev = "ROTATING" /\ NmDist2 >= 15 * 15 /\ Abs(NmDiff) >= 100) =>
          NmRet.event = (IF Abs(NmDiff) > 450
                         THEN (IF NmDiff > 0 THEN "right" ELSE "left")
                         ELSE Null)
    /\ (NavUpdated /\ call.prev = "ROTATING" /\ NavDist2 >= 15 * 15 /\ Abs(NavDiff) >= 100) =>
          call.vibrate = (IF Abs(NavDiff) > 450
                          THEN << PatternOf(IF NavDiff > 0 THEN "right" ELSE "left") >>
                          ELSE <<>>)

----------------------------------------------------------------------------
(* C9 *)

\* C9: in MOVING with the pose outside the arrival radius, an update moves
\* the machine to ROTATING exactly when |angleDiff| > 20 degrees (at exactly
\* 20 it stays MOVING), and that call emits "Stop. Turn to correct heading."
\* with the stop haptic (event stop in NavigationModule, the 200 ms pulse in
\* Navigator).
C9_MovingToRotating ==
    /\ (NmUpdated /\ call.prev = "MOVING" /\ NmDist2 >= 15 * 15) =>
          /\ (nmState = "ROTATING") <=> (Abs(NmDiff) > 200)
          /\ Abs(NmDiff) > 200 =>
                /\ NmRet.instruction = "Stop. Turn to correct heading."
                /\ NmRet.event = "stop"
          /\ Abs(NmDiff) <= 200 => nmState = "MOVING"
    /\ (NavUpdated /\ call.prev = "MOVING" /\ NavDist2 >= 15 * 15) =>
          /\ (navState = "ROTATING") <=> (Abs(NavDiff) > 200)
          /\ Abs(NavDiff) > 200 =>
                /\ call.speak = <<"Stop. Turn to correct heading.">>
                /\ call.vibrate = << <<200>> >>
          /\ Abs(NavDiff) <= 200 => navState = "MOVING"

\* an update in MOVING with angleDiff exactly -20 degrees, which stays MOVING
C9_Witness ==
    /\ NmUpdated
    /\ call.prev = "MOVING"
    /\ NmDist2 >= 15 * 15
    /\ NmDiff = -200
    /\ nmState = "MOVING"

----------------------------------------------------------------------------
(* C10 *)

\* C10: hysteresis: an update whose pose is outside the arrival radius and
\* has 10 <= |angleDiff| <= 20 degrees changes neither ROTATING nor MOVING, so
\* over any sequence of such updates the state never changes.
C10_NoFlappingInsideBand ==
    /\ (NmUpdated /\ call.prev \in {"ROTATING", "MOVING"} /\ NmDist2 >= 15 * 15
            /\ 100 <= Abs(NmDiff) /\ Abs(NmDiff) <= 200) =>
          nmState = call.prev
    /\ (NavUpdated /\ call.prev \in {"ROTATING", "MOVING"} /\ NavDist2 >= 15 * 15
            /\ 100 <= Abs(NavDiff) /\ Abs(NavDiff) <= 200) =>
          navState = call.prev

\* Navigator in ROTATING, updated with angleDiff 12.5 degrees
C10_Witness ==
    /\ NavUpdated
    /\ call.prev = "ROTATING"
    /\ NavDist2 >= 15 * 15
    /\ NavDiff = 125
    /\ navState = "ROTATING"

----------------------------------------------------------------------------
(* C11 *)

\* C11: in MOVING with the pose outside the arrival radius and
\* |angleDiff| <= 20 degrees, update keeps the state MOVING and emits neither
\* an instruction nor a haptic event.
C11_SilentWhileMoving ==
    /\ (NmUpdated /\ call.prev = "MOVING" /\ NmDist2 >= 15 * 15 /\ Abs(NmDiff) <= 200) =>
          (nmState = "MOVING" /\ NmSilent)
    /\ (NavUpdated /\ call.prev = "MOVING" /\ NavDist2 >= 15 * 15 /\ Abs(NavDiff) <= 200) =>
          (navState = "MOVING" /\ NavSilent)

\* Navigator in MOVING, updated 5 m from the target with angleDiff -12.5 degrees
C11_Witness ==
    /\ NavUpdated
    /\ call.prev = "MOVING"
    /\ NavDist2 = 50 * 50
    /\ NavDiff = -125
    /\ navState = "MOVING"
    /\ NavSilent

----------------------------------------------------------------------------
(* C12 *)

\* C12: every NavigationModule.update call made with a target set returns an
\* object that reports the distance, the angleDiff and a state field equal to
\* the state of the machine after the call, on every branch.
C12_GuidanceOutputReportsState ==
    NmUpdated =>
        /\ call.ret # <<>>
        /\ NmRet.dist2 = NmDist2
        /\ NmRet.diff = NmDiff
        /\ NmRet.state = nmState

----------------------------------------------------------------------------
(* C13 *)

\* C13: the navigation state is always one of IDLE, ROTATING, MOVING,
\* ARRIVED; it is IDLE exactly while no target has been set (a target, once
\* set, is never cleared), and before the first setTarget or update call it
\* is the constructed IDLE.
C13_StateIsOneOfFour ==
    /\ nmState \in NavStates
    /\ navState \in NavStates
    /\ (nmState = "IDLE") <=> IsNull(nmTarget)
    /\ (navState = "IDLE") <=> IsNull(navTarget)
    /\ call.op = "new" => (nmState = "IDLE" /\ navState = "IDLE")
    /\ (call.op = "update" /\ call.prev = "IDLE") =>
          (nmState = "IDLE" /\ navState = "IDLE")

\* the setTarget call that leaves IDLE
C13_Witness ==
    /\ app = "integrated-app"
    /\ call.op = "setTarget"
    /\ call.prev = "IDLE"
    /\ nmState = "ROTATING"
    /\ ~IsNull(nmTarget)

----------------------------------------------------------------------------
(* C15 *)

\* C15: for every heading and bearing, the angle difference returned by
\* GeometryUtils.getAngleDiff and the diff computed in NavigationModule.update
\* is greater than -180 and at most 180 degrees, so that a heading exactly
\* opposite the bearing gives +180 and never -180.
C15_AngleDiffHalfOpen ==
    geoCall.op \in {"getAngleDiff", "diff"} =>
        /\ -180 * AngleScale < Grid(geoCall.ret)
        /\ Grid(geoCall.ret) <= 180 * AngleScale

----------------------------------------------------------------------------
(* C16 *)

\* C16: for every pair of points, equal ones included, the bearing is at
\* least 0 and less than 360 degrees; it is 0 for a target straight ahead
\* on +y and 90 for a target on +x.
C16_BearingInRange ==
    geoCall.op \in {"getBearing", "bearing"} =>
        LET from == geoCall.arg[1]
            to == geoCall.arg[2]
        IN  /\ ~LtZero(geoCall.ret)
            /\ Grid(geoCall.ret) < 360 * AngleScale
            /\ (to[1] = from[1] /\ Grid(to[2]) > Grid(from[2])) => geoCall.ret = Dbl(0)
            /\ (Grid(to[1]) > Grid(from[1]) /\ to[2] = from[2]) =>
                  geoCall.ret = Dbl(90 * AngleScale)

----------------------------------------------------------------------------
(* C17 *)

\* C17: round trip: for every pair of distinct points, the bearing b from
\* one to the other, passed to getAngleDiff as heading and as bearing, gives
\* an angle difference of 0.
C17_RoundTrip ==
    (/\ geoCall.op = "getAngleDiff"
     /\ geoCall.bearingOf # <<>>
     /\ geoCall.bearingOf[1] # geoCall.bearingOf[2]) => geoCall.ret = Dbl(0)

\* the bearing of 45 degrees from (0, 0) to (5 m, 5 m), passed on
C17_Witness ==
    /\ geoCall.op = "getAngleDiff"
    /\ geoCall.bearingOf = <<<<Dbl(0), Dbl(0)>>, <<Dbl(50), Dbl(50)>>>>
    /\ geoCall.arg = <<Dbl(45 * AngleScale), Dbl(45 * AngleScale)>>
    /\ geoCall.ret = Dbl(0)

----------------------------------------------------------------------------
(* Observations on the last heading update *)

\* the heading and the recorded time of the tracker the page runs
Heading == IF app = "indoor-nav-pwa" THEN he.heading ELSE om.heading
LastTime == IF app = "indoor-nav-pwa" THEN he.lastTime ELSE om.lastGyroTime

\* the normalisation each tracker applies after integrating
Normalised(heading) ==
    IF app = "indoor-nav-pwa" THEN JsRem(heading, TwoPi) ELSE heading % TwoPi

----------------------------------------------------------------------------
(* C18 *)

\* C18: after any sequence of gyro updates and absolute-heading
\* calibrations the stored heading is at least 0 and less than 2 pi, in
\* HeadingEstimator and in OdometryModule.
C18_HeadingWrapped ==
    /\ 0 <= he.heading /\ he.heading < TwoPi
    /\ 0 <= om.heading /\ om.heading < TwoPi

----------------------------------------------------------------------------
(* C19 *)

\* C19: a heading update whose timestamp is not after the one recorded by
\* the previous update (dt <= 0) leaves the heading as it was, for every
\* yaw rate.
C19_NonPositiveDtIgnored ==
    (odoCall.gyro /\ odoCall.nth >= 2 /\ odoCall.now <= odoCall.lastTime) =>
        Heading = odoCall.heading

----------------------------------------------------------------------------
(* C20 *)

\* C20: the first heading update records its timestamp and leaves the
\* heading unchanged, for every yaw rate and timestamp; the second update
\* integrates the yaw rate over dt = second timestamp - first timestamp.
C20_FirstUpdateOnlyRecords ==
    /\ (odoCall.gyro /\ odoCall.nth = 1) =>
          (Heading = odoCall.heading /\ LastTime = odoCall.now)
    /\ (odoCall.gyro /\ odoCall.nth = 2) =>
          Heading = Normalised(odoCall.heading
                               + Integrate(odoCall.rate, odoCall.now - odoCall.lastTime))

----------------------------------------------------------------------------
(* C21 *)

\* C21: a heading update with yaw rate 0 leaves the stored heading as it
\* was, for every dt and for every heading the tracker holds at that point,
\* a heading just set by setAbsoluteHeading included.
C21_ZeroRateKeepsHeading ==
    (odoCall.gyro /\ odoCall.rate = 0) => Heading = odoCall.heading

----------------------------------------------------------------------------
(* Steps                                                                   *)

\* the step counter and the position of the running application
StepCount == IF app = "integrated-app" THEN om.stepCount ELSE sd.stepCount
LastStepTime == IF app = "integrated-app" THEN om.lastStepTime ELSE sd.lastStepTime
Position == IF app = "integrated-app" THEN <<om.x, om.y>> ELSE <<pt.x, pt.y>>
MotionHandled == stepCall.op \in {"handleMotion", "devicemotion"}

\* C22: while the filtered magnitude stays above the threshold, however
\* long the excursion lasts, one step at most is counted, by
\* StepDetector.update and by OdometryModule.handleMotion alike.
C22_OneStepPerExcursion == stepCall.excursionSteps <= 1

\* C23: two counted steps are never closer than the refractory interval,
\* 300 ms for StepDetector and 400 ms for OdometryModule.
C23_RefractoryGating ==
    StepCount >= 2 =>
        LastStepTime - stepCall.prevStepTime
            > (IF app = "integrated-app" THEN 400 ELSE 300)

\* a second excursion begins inside the interval after the first step and
\* counts no step
C23_Witness ==
    /\ app = "indoor-nav-pwa"
    /\ stepCall.op = "devicemotion"
    /\ stepCall.above /\ ~stepCall.outside /\ ~stepCall.fired
    /\ stepCall.excursionSteps = 0
    /\ StepCount = 1

\* C24: as long as no filtered sample has been above the threshold, no
\* step is counted, onStep is not called and the position is the origin.
C24_SubThresholdNeverSteps ==
    ~stepCall.everAbove =>
        /\ StepCount = 0
        /\ ~stepCall.fired
        /\ Position = <<0, 0>>

\* a sample below the threshold arrives while the user is moving and no
\* refractory interval is running
C24_Witness ==
    /\ app = "integrated-app"
    /\ stepCall.op = "handleMotion"
    /\ ~IsNull(stepCall.sample)
    /\ ~stepCall.everAbove
    /\ stepCall.gate /\ stepCall.outside

\* the filter state of the running application
LastAccel == IF app = "integrated-app" THEN om.lastAccel ELSE sd.lastAccel

\* C25: after the very first accelerometer sample the filter state equals
\* that sample, and no step is counted on that call, whatever the
\* magnitude of the sample.
C25_FirstSampleInitialisesFilter ==
    (MotionHandled /\ stepCall.first) =>
        /\ LastAccel = Deref(stepCall.sample)
        /\ ~stepCall.fired

\* C26: while isMoving is false, a sample above the threshold and outside
\* the refractory interval leaves x, y and stepCount of OdometryModule as
\* they were.
C26_FusionGateSuppresses ==
    (stepCall.op = "handleMotion" /\ stepCall.above /\ stepCall.outside
        /\ ~stepCall.gate) => ~stepCall.moved

\* updateVisuals has reported the scene as static, and a sample above the
\* threshold arrives outside the refractory interval
C26_Witness ==
    /\ stepCall.op = "handleMotion"
    /\ stepCall.visuals
    /\ stepCall.above /\ stepCall.outside /\ ~stepCall.gate
    /\ om.stepCount = 1

\* the sample is the first of its excursion to count
FreshExcursion == stepCall.excursionSteps = (IF stepCall.fired THEN 1 ELSE 0)

\* C27: as long as updateVisuals has never been called, a sample above the
\* threshold and outside the refractory interval counts a step and
\* advances the position.
C27_StepsWithoutVisuals ==
    (MotionHandled /\ ~stepCall.visuals /\ stepCall.above /\ stepCall.outside
        /\ FreshExcursion)
        => (stepCall.fired /\ stepCall.moved)

\* C28: a counted step moves the position by 0.7 m along the heading held
\* when the sample arrived: by (0, 0.7) at heading 0, by (0.7, 0) at
\* heading pi/2; and n steps, all taken at heading 0, lead to (0, 0.7 n).
C28_StepAdvancesAlongHeading ==
    /\ (MotionHandled /\ stepCall.fired) =>
          /\ stepCall.dx * stepCall.dx + stepCall.dy * stepCall.dy = 700 * 700
          /\ stepCall.theta = 0 => (stepCall.dx = 0 /\ stepCall.dy = 700)
          /\ stepCall.theta = 90 * AngleScale => (stepCall.dx = 700 /\ stepCall.dy = 0)
    /\ ~stepCall.turned => Position = <<0, 700 * StepCount>>

\* the second step, taken after a quarter turn to the right
C28_Witness ==
    /\ MotionHandled
    /\ stepCall.fired
    /\ stepCall.theta = 90 * AngleScale
    /\ Position = <<700, 700>>

\* process or processFrame has just run
FrameProcessed == stepCall.op \in {"updateVisuals", "processFrame"}

\* C29: the motion-confidence gate returns 0 and stores the frame when it
\* processes its first frame, and returns 0 and keeps the stored previous
\* frame when the video is not ready.
C29_ZeroWhenNothingToDiff ==
    FrameProcessed =>
        /\ Deref(stepCall.video).readyState < 2 =>
              /\ stepCall.ret = JsNumber(0)
              /\ vo.prevFrame = stepCall.prevFrame
        /\ (Deref(stepCall.video).readyState >= 2 /\ IsNull(stepCall.prevFrame)) =>
              /\ stepCall.ret = JsNumber(0)
              /\ vo.prevFrame = Object(Deref(stepCall.video).frame)

\* C30: getPosition returns the pose of the tracker and leaves x, y and
\* heading as they were, two calls in a row return the same values, and
\* MiniMap.update leaves the pose it is given where the tracker holds it.
C30_ReadingKeepsPose ==
    /\ stepCall.op = "getPosition" =>
          /\ ~stepCall.moved
          /\ Deref(stepCall.pose) = [x |-> om.x, y |-> om.y, heading |-> om.heading]
          /\ ~IsNull(stepCall.lastPose) => stepCall.lastPose = stepCall.pose
    /\ stepCall.op = "minimap.update" =>
          /\ ~stepCall.moved
          /\ minimap.path # <<>>
          /\ LET last == minimap.path[Len(minimap.path)]
                 dx == om.x - last.x
                 dy == om.y - last.y
             IN  dx * dx + dy * dy <= minPathGap * minPathGap

\* getPosition is called a second time after the user has walked and turned
C30_Witness ==
    /\ stepCall.op = "getPosition"
    /\ ~IsNull(stepCall.lastPose)
    /\ om.stepCount > 0
    /\ om.heading # 0

----------------------------------------------------------------------------
(* Feedback *)

\* the haptic event codes of the guidance
HapticCodes == {"left", "right", "straight", "stop", "arrived", "info"}

\* C32: every haptic event code NavigationModule.update returns, after any
\* sequence of setTarget and update calls, is one of left, right, straight,
\* stop, arrived and info, and AccessibilityModule.vibrate and
\* FeedbackManager both have a pattern for it.
C32_HapticCodesKnown ==
    (NmUpdated /\ NmRet.event # Null) =>
        /\ NmRet.event \in HapticCodes
        /\ NmRet.event \in DOMAIN amPatterns
        /\ NmRet.event \in DOMAIN fmPatterns

\* update returns the code stop, for which vibrate has four pulses
C32_Witness ==
    /\ NmUpdated
    /\ NmRet.event = "stop"
    /\ amVibrate(NmRet.event) = <<50, 50, 50, 50>>

\* an announce call was made with a text that is not empty
Announced == voiceCall.op # "new" /\ ~Falsy(voiceCall.text)

\* C34: an announce call with priority 2 and a text that is not empty is
\* spoken, after synth.cancel(), however recently something was spoken; and
\* loop() announces an instruction whose event is stop or arrived with
\* priority 2, so that it is spoken in the frame that emits it.  The
\* browser has speech synthesis.
C34_CriticalNeverThrottled ==
    /\ (Announced /\ voiceCall.priority = 2) =>
          (voiceCall.spoken /\ voiceCall.cancelled)
    /\ (voiceCall.op = "loop" /\ voiceCall.event \in {"stop", "arrived"}
          /\ voiceCall.text # Null) =>
          (voiceCall.priority = 2 /\ voiceCall.spoken)

\* the arrival is announced less than three seconds after the last utterance
C34_Witness ==
    /\ voiceCall.op = "loop"
    /\ voiceCall.event = "arrived"
    /\ voiceCall.text = "You have arrived."
    /\ voiceCall.spoken
    /\ voiceCall.now - voiceCall.last < 3000

\* C37: every instruction NavigationModule.update emits while loop() drives
\* it is spoken by AccessibilityModule, the `Walk forward.' emitted on the
\* first frames after setTarget included.
C37_EveryInstructionSpoken ==
    (voiceCall.op = "loop" /\ voiceCall.text # Null) => voiceCall.spoken

----------------------------------------------------------------------------
(* The running application *)

\* the pose OdometryModule holds
PoseOf(o) == [x |-> o.x, y |-> o.y, heading |-> o.heading]

\* a loop() call has read the pose
PoseRead == loopCall.op \in {"loop", "start.loop"} /\ loopCall.read # <<>>

C35_DetectThrottled ==
    /\ \A video \in Videos, now \in LoopTimes :
          LET d == vmDetect(vision, video, now)
          IN  /\ (~vision.isLoaded \/ video.readyState < 2) =>
                    (d.ret = "[]" /\ ~d.inference /\ d.vm = vision)
              /\ (vision.isLoaded /\ video.readyState >= 2
                    /\ now - vision.lastRun < 200) =>
                    (d.ret = Null /\ ~d.inference /\ d.vm = vision)
    /\ (loopCall.op \in {"loop", "start.loop"} /\ loopCall.inference) =>
          (loopCall.loaded /\ loopCall.now - loopCall.lastRun >= 200)
    /\ (loopCall.op \in {"loop", "start.loop"} /\ ~loopCall.inference) =>
          vision.lastRun = loopCall.lastRun

\* a loop() call whose detect was throttled, after one that ran the model
C35_Witness ==
    /\ loopCall.op = "loop"
    /\ loopCall.detect = Null
    /\ loopCall.loaded
    /\ loopCall.lastRun # 0
    /\ loopCall.now - loopCall.lastRun < 200

\* C36: after stop(), called by start() while the application runs, the
\* call has returned without an exception, isRunning is false, the video is
\* paused and has no stream, the button reads Start, the status reads
\* System Idle and `System stopped.' was announced.
C36_StopCompletes ==
    loopCall.op = "stop" =>
        /\ ~loopCall.threw
        /\ ~ac.isRunning
        /\ ac.paused
        /\ ~ac.srcObject
        /\ ac.button = "Start"
        /\ ac.status = "System Idle"
        /\ loopCall.announced

\* C38: at most one loop() chain is running, suspended or scheduled.
C38_SingleChain ==
    Len(chains) <= 1

\* C39: the pose loop() hands to nav.update is the pose OdometryModule
\* holds when nav.update is called.
C39_PoseCurrent ==
    loopCall.pos # <<>> => Deref(loopCall.pos) = PoseOf(om)

----------------------------------------------------------------------------
(* Offline *)

\* C33: with the service worker installed and the network unavailable, a
\* request is answered from the cache when it is for a listed asset or for
\* a file the network has answered with status 200 before, cross-origin
\* files included.
C33_OfflineAfterFirstLoad ==
    (swCall.op = "fetch" /\ ~sw.online
        /\ swCall.request \in ASSETS \cup swCall.fetched) =>
        swCall.answer = "cache"

----------------------------------------------------------------------------
(* Steps and turns *)

\* what a step writes: the position, the count and the time of the step
StepPart(o) == <<o.x, o.y, o.stepCount, o.lastStepTime>>

\* C40: in handleMotion, whatever the event and the clock, step detection
\* leaves the heading as it is and either accepts a step (stepCount grows
\* by one and the position changes) or leaves x, y, stepCount and
\* lastStepTime as they are; gyro integration leaves x, y, stepCount and
\* lastStepTime as they are.
C40_StepAndHeadingApart ==
    /\ \A acc \in AccelerationsTo(StepLevels, om.lastAccel), rot \in StepRotations,
          now \in StepTimes :
          LET s == omStepDetection(om, acc, now)
              n == omHeading(s, rot, now)
              e == [accelerationIncludingGravity |-> acc, rotationRate |-> rot,
                    timeStamp |-> 0]
          IN  /\ s.heading = om.heading
              /\ s.lastGyroTime = om.lastGyroTime
              /\ \/ /\ s.stepCount = om.stepCount + 1
                    /\ <<s.x, s.y>> # <<om.x, om.y>>
                 \/ StepPart(s) = StepPart(om)
              /\ StepPart(n) = StepPart(s)
              /\ omHandleMotion(om, e, now, now) = n
    /\ stepCall.op = "handleMotion" =>
          /\ stepCall.fired <=> <<stepCall.dx, stepCall.dy>> # <<0, 0>>
          /\ stepCall.fired <=> stepCall.moved

\* one event carries a step that is accepted and a turn
C40_Witness ==
    /\ stepCall.op = "handleMotion"
    /\ stepCall.fired
    /\ om.heading # stepCall.theta
    /\ om.lastStepTime = stepCall.now

====
